---- MODULE Spec2Model ----
(***************************************************************************)
(* Acquisition pipeline and session controller of the WITRN PD sniffer     *)
(* (src/witrn_pd_sniffer.py): the acquisition worker process               *)
(* (data_collection_worker), the two bounded queues, the queue consumer    *)
(* thread (_consume_queue_data), the Tk handlers of WITRNGUI that own the  *)
(* connection life cycle, and the CSV import (replay) path.                *)
(*                                                                         *)
(* Granularity: one action per worker loop iteration, per event taken off  *)
(* a queue by the consumer thread, and per Tk handler.  The one handler    *)
(* that blocks (_stop_collection_process: join + sleep) is split at its    *)
(* blocking point so that worker and consumer run while it waits.          *)
(***************************************************************************)
EXTENDS Integers, Sequences, FiniteSets, TLC

\* ---------------------------------------------------------------- bounds
\* Queue capacities, scaled down from Queue(maxsize=1000) / Queue(maxsize=500).
DATA_QUEUE_MAXSIZE == 1
IV_QUEUE_MAXSIZE == 2
\* deque(maxlen=60000) of the plot buffers, scaled down.
PLOT_MAXLEN == 2
\* Device reads (all sessions together) and connection attempts explored.
MaxReads == 3
MaxConnects == 2

\* ------------------------------------------------------ program constants
FRAME_LEN == 64
\* Low-frequency gate of the readout, in milliseconds (0.1 s).
IV_INFO_PERIOD_MS == 100
\* Value('i', 1): paused; 0: collecting; NoFlag: self.pause_flag is None.
PAUSED == 1
COLLECTING == 0
NoFlag == -1
\* plot_start_time is None
NoTime == -1
\* time.time() at the first read, in ms (any value >= IV_INFO_PERIOD_MS).
T0 == 1000

\* ------------------------------------------------------------ the decoder
\* witrnhid is an external library: WITRN_DEV.auto_unpack is modelled as a
\* pure function of the frame's leading bytes and the context it is handed.
\* Byte 1 selects the message: 1,2 capability (is_pdo), 3 request (is_rdo),
\* 4 extended-context (provide_ext), 5 plain control, 6 general (telemetry),
\* 7 a frame that is neither; any other value does not decode.
NoPkg == [field |-> "none", id |-> 0, pdo |-> 0, ext |-> 0, rdo |-> 0, cur |-> 0, vol |-> 0]

FrameField(b) ==
    IF b \in 1..5 THEN "pd"
    ELSE IF b = 6 THEN "general"
    ELSE IF b = 7 THEN "other"
    ELSE "error"

\* a byte read as a signed quantity (the current may be negative)
Signed(b) == IF b >= 128 THEN b - 256 ELSE b

\* auto_unpack(data, last_pdo, last_ext, last_rdo): the decoded package records
\* which context messages it was decoded against.
auto_unpack(data, lpdo, lext, lrdo) ==
    LET f == FrameField(data[1]) IN
    IF f = "pd"
      THEN [field |-> "pd", id |-> data[1], pdo |-> lpdo.id, ext |-> lext.id,
            rdo |-> lrdo.id, cur |-> 0, vol |-> 0]
    ELSE IF f = "general"
      THEN [field |-> "general", id |-> data[1], pdo |-> 0, ext |-> 0, rdo |-> 0,
            cur |-> Signed(data[2]), vol |-> data[3]]
    ELSE [field |-> f, id |-> data[1], pdo |-> 0, ext |-> 0, rdo |-> 0,
          cur |-> 0, vol |-> 0]

is_pdo(pkg) == pkg.field = "pd" /\ pkg.id \in {1, 2}
is_rdo(pkg) == pkg.field = "pd" /\ pkg.id = 3
provide_ext(pkg) == pkg.field = "pd" /\ pkg.id = 4

Abs(x) == IF x < 0 THEN -x ELSE x

\* A 64-byte report as the HID transport delivers it.
DeviceFrame(b1, b2, b3) ==
    [i \in 1..FRAME_LEN |-> IF i = 1 THEN b1 ELSE IF i = 2 THEN b2 ELSE IF i = 3 THEN b3 ELSE 0]

\* What k2.read_data() can return in this model.
PdBytes == {1, 3, 4}
DeviceFrames ==
    {DeviceFrame(b, 0, 0) : b \in PdBytes \cup {7}} \cup {DeviceFrame(6, 255, 5)}

\* ------------------------------------------------------------------ state
VARIABLES
    \* WITRNGUI fields
    data_list, is_paused, import_mode, device_open,
    awaiting_connection_ack, autostart_after_connect, data_thread_started,
    last_pdo, last_rdo, status, egg_activated,
    plot_times, plot_voltage, plot_current, plot_start_time, marker_events,
    plot_update_job, iv_info,
    \* the Tk main thread: where it is, and the root.after(0, ...) callbacks pending
    ui_pc, ui_callbacks,
    \* consumer thread
    queue_consumer_running,
    \* shared with the worker process
    data_queue, iv_queue, stop_event, pause_flag,
    \* the worker process (collection_process) and its locals
    w_pc, w_pkg, w_last_pdo, w_last_rdo, w_last_general_timestamp,
    \* wall clock (ms), device reads and connection attempts so far
    now, reads, connects,
    \* the frame normalisation of one Raw cell, checked on its own (SpecNormalize)
    nz,
    \* a frame sequence decoded by the live path and by the replay path (SpecReplay)
    rp,
    \* the reader loop of import_csv over the rows of a file, row by row (SpecImport)
    im,
    \* the worker's 10 Hz gate over a run of telemetry frames (SpecGate)
    gate,
    \* the statements of add_data_item on the consumer thread against the Tk
    \* thread's handlers on the same list (SpecLog)
    lg,
    \* the plot panel: buffers, marker events, axis limits and the marker lines
    \* drawn by _update_plot (SpecPlot)
    pl,
    \* the statements of the consumer's confirmation block against those of
    \* pause_collection on the Tk thread (SpecFlag)
    pf

gui_vars == <<data_list, is_paused, import_mode, device_open,
              awaiting_connection_ack, autostart_after_connect, data_thread_started,
              last_pdo, last_rdo, status, egg_activated>>
plot_vars == <<plot_times, plot_voltage, plot_current, plot_start_time, marker_events,
               plot_update_job, iv_info>>
ui_vars == <<ui_pc, ui_callbacks, queue_consumer_running>>
shared_vars == <<data_queue, iv_queue, stop_event, pause_flag>>
worker_vars == <<w_pc, w_pkg, w_last_pdo, w_last_rdo, w_last_general_timestamp>>
env_vars == <<now, reads, connects>>
main_vars == <<gui_vars, plot_vars, ui_vars, shared_vars, worker_vars, env_vars>>
side_vars == <<nz, rp, im, gate, lg, pl, pf>>
vars == <<main_vars, side_vars>>

NoIvInfo == [current |-> 0, voltage |-> 0, power |-> 0, shown |-> FALSE]

MainInit ==
    /\ data_list = <<>>
    /\ is_paused = TRUE
    /\ import_mode = FALSE
    /\ device_open = FALSE
    /\ awaiting_connection_ack = FALSE
    /\ autostart_after_connect = FALSE
    /\ data_thread_started = FALSE
    /\ last_pdo = NoPkg
    /\ last_rdo = NoPkg
    /\ status = "ready"
    /\ egg_activated = FALSE
    /\ plot_times = <<>>
    /\ plot_voltage = <<>>
    /\ plot_current = <<>>
    /\ plot_start_time = NoTime
    /\ marker_events = <<>>
    /\ plot_update_job = FALSE
    /\ iv_info = NoIvInfo
    /\ ui_pc = "idle"
    /\ ui_callbacks = <<>>
    /\ queue_consumer_running = FALSE
    /\ data_queue = <<>>
    /\ iv_queue = <<>>
    /\ stop_event = "none"
    /\ pause_flag = NoFlag
    /\ w_pc = "none"
    /\ w_pkg = NoPkg
    /\ w_last_pdo = NoPkg
    /\ w_last_rdo = NoPkg
    /\ w_last_general_timestamp = 0
    /\ now = T0
    /\ reads = 0
    /\ connects = 0

\* ------------------------------------------------------------- the queues
\* A queue with no bound: the item is always taken.
put_nowait_Unbounded(q, item, maxsize) == Append(q, item)

\* Queue.put_nowait: queue.Full is caught by the caller and the item is lost.
put_nowait(q, item, maxsize) == IF Len(q) < maxsize THEN Append(q, item) ELSE q

PdEvent(pkg, t, lp, lr) ==
    [error |-> "none", time_sec |-> t, data |-> pkg,
     is_pdo |-> is_pdo(pkg), is_rdo |-> is_rdo(pkg), last_pdo |-> lp, last_rdo |-> lr]

ErrorEvent(e) ==
    [error |-> e, time_sec |-> 0, data |-> NoPkg,
     is_pdo |-> FALSE, is_rdo |-> FALSE, last_pdo |-> NoPkg, last_rdo |-> NoPkg]

\* An event whose power is the signed product (to test C21).
IvEvent_SignedPower(pkg, t, upd) ==
    [timestamp |-> t, voltage |-> pkg.vol, current |-> pkg.cur,
     power |-> pkg.cur * pkg.vol, update_plot |-> TRUE, update_iv_info |-> upd]

\* The dict put on iv_queue (cc1, cc2, dp, dn are not modelled).
IvEvent(pkg, t, upd) ==
    [timestamp |-> t, voltage |-> pkg.vol, current |-> pkg.cur,
     power |-> Abs(pkg.cur * pkg.vol), update_plot |-> TRUE, update_iv_info |-> upd]

\* -------------------------------------------------------------- the worker
\* Time that passes between two reads of the device (ms).
DtSet == {50}

\* k2.open() succeeds: the worker enters its loop.
WorkerOpen ==
    /\ w_pc = "start"
    /\ w_pc' = "loop"
    /\ UNCHANGED <<w_pkg, w_last_pdo, w_last_rdo, w_last_general_timestamp>>
    /\ UNCHANGED <<gui_vars, plot_vars, ui_vars, shared_vars, env_vars>>
    /\ UNCHANGED side_vars

\* k2.open() raises: the outer except sends 'connection_failed' and the worker ends.
WorkerOpenFails ==
    /\ w_pc = "start"
    /\ data_queue' = put_nowait(data_queue, ErrorEvent("connection_failed"), DATA_QUEUE_MAXSIZE)
    /\ w_pc' = "exited"
    /\ UNCHANGED <<w_pkg, w_last_pdo, w_last_rdo, w_last_general_timestamp>>
    /\ UNCHANGED <<iv_queue, stop_event, pause_flag>>
    /\ UNCHANGED <<gui_vars, plot_vars, ui_vars, env_vars>>
    /\ UNCHANGED side_vars

\* while not stop_event.is_set(): the loop-top check finds the signal raised.
WorkerStop ==
    /\ w_pc = "loop"
    /\ stop_event = "set"
    /\ w_pc' = "exited"
    /\ UNCHANGED <<w_pkg, w_last_pdo, w_last_rdo, w_last_general_timestamp>>
    /\ UNCHANGED <<gui_vars, plot_vars, ui_vars, shared_vars, env_vars>>
    /\ UNCHANGED side_vars

\* A gate that is always open (to test C20).
update_iv_info_Always(t, last_general_timestamp) == TRUE

\* update_iv_info = (now - last_general_timestamp >= 0.1), in milliseconds.
update_iv_info(t, last_general_timestamp) ==
    t - last_general_timestamp >= IV_INFO_PERIOD_MS

\* if update_iv_info: last_general_timestamp = now (whether or not the queue
\* took the event).
NextGeneralTimestamp(t, last_general_timestamp) ==
    IF update_iv_info(t, last_general_timestamp) THEN t ELSE last_general_timestamp

\* The 'general' branch: the event is always sent; update_iv_info is the 10 Hz gate.
WorkerGeneral(pkg, t) ==
    /\ iv_queue' = put_nowait(iv_queue,
                              IvEvent(pkg, t, update_iv_info(t, w_last_general_timestamp)),
                              IV_QUEUE_MAXSIZE)
    /\ w_last_general_timestamp' = NextGeneralTimestamp(t, w_last_general_timestamp)
    /\ w_pc' = "loop"
    /\ UNCHANGED <<w_last_pdo, w_last_rdo, data_queue>>

\* The context the worker keeps after a PD package it does process.
WorkerNextPdo(pkg, lp) == IF is_pdo(pkg) THEN pkg ELSE lp
WorkerNextRdo(pkg, lr) == IF is_rdo(pkg) THEN pkg ELSE lr

\* The 'pd' branch: skipped whole when the pause flag is set (continue), else
\* the context is updated and the event sent.
WorkerPd(pkg, t) ==
    /\ w_pc' = "loop"
    /\ UNCHANGED <<iv_queue, w_last_general_timestamp>>
    /\ IF pause_flag = PAUSED
         THEN UNCHANGED <<w_last_pdo, w_last_rdo, data_queue>>
         ELSE LET lp == WorkerNextPdo(pkg, w_last_pdo)
                  lr == WorkerNextRdo(pkg, w_last_rdo) IN
              /\ w_last_pdo' = lp
              /\ w_last_rdo' = lr
              /\ data_queue' = put_nowait(data_queue, PdEvent(pkg, t, lp, lr), DATA_QUEUE_MAXSIZE)

\* The package the worker gets for a frame: k2.auto_unpack() is called without
\* any context argument.
WorkerUnpack(frame) == auto_unpack(frame, NoPkg, NoPkg, NoPkg)

\* One loop iteration that reads a frame: read_data, auto_unpack, branch on field().
WorkerRead ==
    /\ w_pc = "loop"
    /\ stop_event # "set"
    /\ reads < MaxReads
    /\ \E frame \in DeviceFrames, dt \in DtSet :
         LET t == now + dt
             pkg == WorkerUnpack(frame) IN
         /\ now' = t
         /\ reads' = reads + 1
         /\ w_pkg' = pkg
         /\ IF pkg.field = "general" THEN WorkerGeneral(pkg, t)
            ELSE IF pkg.field = "pd" THEN WorkerPd(pkg, t)
            ELSE /\ w_pc' = "loop"
                 /\ UNCHANGED <<w_last_pdo, w_last_rdo, w_last_general_timestamp,
                                data_queue, iv_queue>>
    /\ UNCHANGED <<stop_event, pause_flag, connects>>
    /\ UNCHANGED <<gui_vars, plot_vars, ui_vars>>
    /\ UNCHANGED side_vars

\* read_data / auto_unpack raises: the inner except looks for 'read error'.
WorkerRaises ==
    /\ w_pc = "loop"
    /\ stop_event # "set"
    /\ reads < MaxReads
    /\ reads' = reads + 1
    /\ \E fatal \in BOOLEAN : w_pc' = IF fatal THEN "except_fatal" ELSE "except_other"
    /\ UNCHANGED <<w_pkg, w_last_pdo, w_last_rdo, w_last_general_timestamp, now, connects>>
    /\ UNCHANGED <<gui_vars, plot_vars, ui_vars, shared_vars>>
    /\ UNCHANGED side_vars

\* 'read error': try put_nowait({'error': 'device_disconnected'}) except: pass; break
WorkerFatal ==
    /\ w_pc = "except_fatal"
    /\ data_queue' = put_nowait(data_queue, ErrorEvent("device_disconnected"), DATA_QUEUE_MAXSIZE)
    /\ w_pc' = "exited"
    /\ UNCHANGED <<w_pkg, w_last_pdo, w_last_rdo, w_last_general_timestamp>>
    /\ UNCHANGED <<iv_queue, stop_event, pause_flag>>
    /\ UNCHANGED <<gui_vars, plot_vars, ui_vars, env_vars>>
    /\ UNCHANGED side_vars

\* A worker that treats every error as fatal (to test C26).
WorkerTransient_Breaks ==
    /\ w_pc = "except_other"
    /\ data_queue' = put_nowait(data_queue, ErrorEvent("device_disconnected"), DATA_QUEUE_MAXSIZE)
    /\ w_pc' = "exited"
    /\ UNCHANGED <<w_pkg, w_last_pdo, w_last_rdo, w_last_general_timestamp>>
    /\ UNCHANGED <<iv_queue, stop_event, pause_flag>>
    /\ UNCHANGED <<gui_vars, plot_vars, ui_vars, env_vars>>
    /\ UNCHANGED side_vars

\* any other error: time.sleep(0.01) and loop again
WorkerTransient ==
    /\ w_pc = "except_other"
    /\ w_pc' = "loop"
    /\ UNCHANGED <<w_pkg, w_last_pdo, w_last_rdo, w_last_general_timestamp>>
    /\ UNCHANGED <<gui_vars, plot_vars, ui_vars, shared_vars, env_vars>>
    /\ UNCHANGED side_vars

\* ------------------------------------------------ the CSV import (replay)
\* A Raw cell is a sequence of characters.
HexChars == <<"0", "1", "2", "3", "4", "5", "6", "7", "8", "9",
              "a", "b", "c", "d", "e", "f", "A", "B", "C", "D", "E", "F">>

IsHexChar(c) == \E i \in 1..Len(HexChars) : HexChars[i] = c

HexValue(c) ==
    LET i == CHOOSE k \in 1..Len(HexChars) : HexChars[k] = c IN
    IF i <= 16 THEN i - 1 ELSE i - 7

\* str.strip(): the text between the first and the last character that is
\* not a space
Strip(s) ==
    LET inked == {i \in 1..Len(s) : s[i] # " "} IN
    IF inked = {} THEN <<>>
    ELSE SubSeq(s, CHOOSE i \in inked : \A j \in inked : i <= j,
                   CHOOSE i \in inked : \A j \in inked : i >= j)

IsNotSpace(c) == c # " "

\* raw_hex.replace(" ", "")
RemoveSpaces(s) == SelectSeq(s, IsNotSpace)

\* raw_hex.replace("0X", "0x"): every X that follows a 0 becomes x
ReplaceUpperX(s) ==
    [i \in 1..Len(s) |-> IF i > 1 /\ s[i] = "X" /\ s[i - 1] = "0" THEN "x" ELSE s[i]]

\* if raw_hex.startswith("0x"): raw_hex = raw_hex[2:]
DropPrefix(s) ==
    IF Len(s) >= 2 /\ s[1] = "0" /\ s[2] = "x" THEN SubSeq(s, 3, Len(s)) ELSE s

\* if len(raw_hex) % 2 == 1: raw_hex = '0' + raw_hex
EvenLength(s) == IF Len(s) % 2 = 1 THEN <<"0">> \o s ELSE s

\* the text handed to bytearray.fromhex
CleanHex(raw) == EvenLength(DropPrefix(ReplaceUpperX(RemoveSpaces(raw))))

\* bytearray.fromhex accepts the text iff every character is a hex digit
HexOk(s) == \A i \in 1..Len(s) : IsHexChar(s[i])

\* bytearray.fromhex: two digits per byte
FromHex(s) == [i \in 1..(Len(s) \div 2) |-> 16 * HexValue(s[2 * i - 1]) + HexValue(s[2 * i])]

\* Normalize without the truncation of a long payload.
Normalize_NoTruncate(data_bytes) ==
    IF Len(data_bytes) < FRAME_LEN
      THEN data_bytes \o [i \in 1..(FRAME_LEN - Len(data_bytes)) |-> 0]
    ELSE data_bytes

\* Normalise to 64 bytes: cut what is beyond, pad the tail with zeros.
Normalize(data_bytes) ==
    IF Len(data_bytes) > FRAME_LEN THEN SubSeq(data_bytes, 1, FRAME_LEN)
    ELSE IF Len(data_bytes) < FRAME_LEN
      THEN data_bytes \o [i \in 1..(FRAME_LEN - Len(data_bytes)) |-> 0]
    ELSE data_bytes

\* The frame import_csv hands to the parser for a cleaned Raw text.
ImportFrame(text) == Normalize(FromHex(text))

\* The replay context: last_pdo, last_rdo, last_ext of import_csv.
NoCtx == [last_pdo |-> NoPkg, last_rdo |-> NoPkg, last_ext |-> NoPkg]

\* The package import_csv gets for a frame: the parser is handed the context.
ImportUnpack(frame, ctx) == auto_unpack(frame, ctx.last_pdo, ctx.last_ext, ctx.last_rdo)

\* The context after a package that decoded.
ImportNextCtx(pkg, ctx) ==
    [last_pdo |-> IF is_pdo(pkg) THEN pkg ELSE ctx.last_pdo,
     last_rdo |-> IF is_rdo(pkg) THEN pkg ELSE ctx.last_rdo,
     last_ext |-> IF provide_ext(pkg) THEN pkg ELSE ctx.last_ext]

\* One row of the reader loop.  tag: "empty" and "badhex" fail before the
\* parser is called, "undecodable" is the parser raising, "notpd" a package whose
\* field is not 'pd', "pd" a row that is appended.
ImportRow(raw, ctx) ==
    LET raw_hex == Strip(raw) IN
    IF raw_hex = <<>> THEN [tag |-> "empty", pkg |-> NoPkg, ctx |-> ctx]
    ELSE LET text == CleanHex(raw_hex) IN
         IF ~HexOk(text) THEN [tag |-> "badhex", pkg |-> NoPkg, ctx |-> ctx]
         ELSE LET frame == ImportFrame(text)
                  pkg == ImportUnpack(frame, ctx) IN
              IF pkg.field = "error" THEN [tag |-> "undecodable", pkg |-> NoPkg, ctx |-> ctx]
              ELSE [tag |-> IF pkg.field = "pd" THEN "pd" ELSE "notpd",
                    pkg |-> pkg, ctx |-> ImportNextCtx(pkg, ctx)]

\* add_data_item without its pause gate.
add_data_item_NoGate(list, pkg, force, paused) ==
    Append(list, [index |-> Len(list) + 1, data |-> pkg, forced |-> force])

\* add_data_item whose gate does not look at force.
add_data_item_GateForced(list, pkg, force, paused) ==
    IF paused THEN list
    ELSE Append(list, [index |-> Len(list) + 1, data |-> pkg, forced |-> force])

\* add_data_item: the pause gate, then the append with the next index.
\* (forced records which path appended the entry.)
add_data_item(list, pkg, force, paused) ==
    IF ~force /\ paused THEN list
    ELSE Append(list, [index |-> Len(list) + 1, data |-> pkg, forced |-> force])

\* A reader loop that forgets to count the rows it skips.
ImportStep_Uncounted(run, raw) ==
    LET r == ImportRow(raw, run.ctx) IN
    [ctx |-> r.ctx,
     list |-> IF r.tag = "pd" THEN add_data_item(run.list, r.pkg, TRUE, TRUE) ELSE run.list,
     success |-> IF r.tag = "pd" THEN run.success + 1 ELSE run.success,
     failed |-> IF r.tag = "notpd" THEN run.failed + 1 ELSE run.failed]

\* One iteration of the reader loop: the row is appended (force=True; the
\* controller is paused during an import) and counted as a success, or counted
\* as failed.
ImportStep(run, raw) ==
    LET r == ImportRow(raw, run.ctx) IN
    [ctx |-> r.ctx,
     list |-> IF r.tag = "pd" THEN add_data_item(run.list, r.pkg, TRUE, TRUE) ELSE run.list,
     success |-> IF r.tag = "pd" THEN run.success + 1 ELSE run.success,
     failed |-> IF r.tag = "pd" THEN run.failed ELSE run.failed + 1]

\* The reader loop over the rows of a file, from a given state of the run.
RECURSIVE ImportRows(_, _)
ImportRows(rows, run) ==
    IF rows = <<>> THEN run
    ELSE ImportRows(Tail(rows), ImportStep(run, Head(rows)))

\* The run before the first row: empty context, empty list, zero counts.
NoRun == [ctx |-> NoCtx, list |-> <<>>, success |-> 0, failed |-> 0]

\* The files the operator can pick: each a sequence of Raw cells.
CsvFiles ==
    { << <<"0", "1">>, <<"z", "z">>, <<"3">> >>,
      << <<>>, <<"0", "6">>, <<" ", "0", "X", "0", "4", " ">> >> }

\* A whole run of import_csv over a file: the reader loop from an empty context,
\* an empty list (the import replaces the list) and zero counts.
ImportFile ==
    [file \in CsvFiles |->
        ImportRows(file, NoRun)]

\* ------------------------------------------------------ the plot buffers
\* A deque that takes the new element at its left end.
DequeAppend_Left(d, x, maxlen) ==
    IF Len(d) >= maxlen THEN <<x>> \o SubSeq(d, 1, Len(d) - 1) ELSE <<x>> \o d

\* A deque that never evicts.
DequeAppend_Unbounded(d, x, maxlen) == Append(d, x)

\* deque(maxlen=...).append
DequeAppend(d, x, maxlen) == IF Len(d) >= maxlen THEN Append(Tail(d), x) ELSE Append(d, x)

\* deque(maxlen=3600) of the marker events, scaled down.
MARKER_MAXLEN == 3

\* _append_plot_point: the first point after a reset sets the origin.
PlotOrigin(start, t_sec) == IF start = NoTime THEN t_sec ELSE start

\* A consumer that records no marker (to test C23).
append_marker_event_None(events, start, t_sec, kind) == events

\* _append_marker_event: recorded only once the origin is known.
append_marker_event(events, start, t_sec, kind) ==
    IF start = NoTime THEN events
    ELSE DequeAppend(events, [t |-> t_sec - start, kind |-> kind], MARKER_MAXLEN)

\* ------------------------------------------------- the consumer thread
\* "if self.device_open and self.awaiting_connection_ack": the first event that
\* is not an error confirms the connection.
Confirms == device_open /\ awaiting_connection_ack

\* ... and applies the latched start request.
AutoStarts == Confirms /\ autostart_after_connect

\* The confirmation block shared by both drain loops.
ConfirmBlock ==
    /\ awaiting_connection_ack' = IF Confirms THEN FALSE ELSE awaiting_connection_ack
    /\ autostart_after_connect' = IF AutoStarts THEN FALSE ELSE autostart_after_connect
    /\ pause_flag' = IF AutoStarts /\ pause_flag # NoFlag THEN COLLECTING ELSE pause_flag

\* A confirmation that forgets the latched start request.
PausedAfterConfirm_Dropped == is_paused

PausedAfterConfirm == IF AutoStarts THEN FALSE ELSE is_paused

StatusAfterConfirm ==
    IF AutoStarts THEN "collecting" ELSE IF Confirms THEN "connected" ELSE status

\* A consumer that takes every error for a failed connection (to test C25).
ErrorCallback_AlwaysFailed(e) == "handle_connection_failed"

\* The handler an error event schedules with root.after(0, ...).
ErrorCallback(e) == IF e = "device_disconnected" THEN "handle_device_disconnect"
                    ELSE "handle_connection_failed"

\* A consumer that takes no event for an error (to test C28).
IsErrorEvent_Never(pd_data) == FALSE

\* if 'error' in pd_data
IsErrorEvent(pd_data) == pd_data.error # "none"

\* One event taken off data_queue.
ConsumePd ==
    /\ queue_consumer_running
    /\ data_queue # <<>>
    /\ LET pd_data == Head(data_queue) IN
       /\ data_queue' = Tail(data_queue)
       /\ IF IsErrorEvent(pd_data)
            THEN /\ ui_callbacks' = Append(ui_callbacks, ErrorCallback(pd_data.error))
                 /\ UNCHANGED <<gui_vars, marker_events, pause_flag>>
            ELSE LET list == add_data_item(data_list, pd_data.data, FALSE, PausedAfterConfirm)
                     ev1 == IF pd_data.is_pdo
                              THEN append_marker_event(marker_events, plot_start_time,
                                                       pd_data.time_sec, "pdo")
                              ELSE marker_events
                     ev2 == IF pd_data.is_rdo
                              THEN append_marker_event(ev1, plot_start_time,
                                                       pd_data.time_sec, "rdo")
                              ELSE ev1 IN
                 /\ ConfirmBlock
                 /\ is_paused' = PausedAfterConfirm
                 /\ data_list' = list
                 /\ status' = IF list # data_list THEN "count" ELSE StatusAfterConfirm
                 /\ last_pdo' = IF pd_data.is_pdo THEN pd_data.last_pdo ELSE last_pdo
                 /\ last_rdo' = IF pd_data.is_rdo THEN pd_data.last_rdo ELSE last_rdo
                 /\ marker_events' = ev2
                 /\ UNCHANGED <<import_mode, device_open, data_thread_started,
                                egg_activated, ui_callbacks>>
    /\ UNCHANGED <<plot_times, plot_voltage, plot_current, plot_start_time,
                   plot_update_job, iv_info>>
    /\ UNCHANGED <<ui_pc, queue_consumer_running, iv_queue, stop_event>>
    /\ UNCHANGED <<worker_vars, env_vars>>
    /\ UNCHANGED side_vars

\* A readout that is refreshed whether or not the device is open (to test C24).
IvInfoAfter_DeviceIgnored(iv_data) ==
    IF iv_data.update_iv_info
      THEN [current |-> iv_data.current, voltage |-> iv_data.voltage,
            power |-> iv_data.power, shown |-> TRUE]
      ELSE iv_info

\* set_iv_info, reached only "if self.device_open"
IvInfoAfter(iv_data) ==
    IF iv_data.update_iv_info /\ device_open
      THEN [current |-> iv_data.current, voltage |-> iv_data.voltage,
            power |-> iv_data.power, shown |-> TRUE]
      ELSE iv_info

\* One event taken off iv_queue.
ConsumeIv ==
    /\ queue_consumer_running
    /\ iv_queue # <<>>
    /\ LET iv_data == Head(iv_queue)
           origin == PlotOrigin(plot_start_time, iv_data.timestamp) IN
       /\ iv_queue' = Tail(iv_queue)
       /\ ConfirmBlock
       /\ is_paused' = PausedAfterConfirm
       /\ status' = StatusAfterConfirm
       /\ IF iv_data.update_plot
            THEN /\ plot_start_time' = origin
                 /\ plot_times' = DequeAppend(plot_times, iv_data.timestamp - origin, PLOT_MAXLEN)
                 /\ plot_voltage' = DequeAppend(plot_voltage, iv_data.voltage, PLOT_MAXLEN)
                 /\ plot_current' = DequeAppend(plot_current, iv_data.current, PLOT_MAXLEN)
            ELSE UNCHANGED <<plot_start_time, plot_times, plot_voltage, plot_current>>
       /\ iv_info' = IvInfoAfter(iv_data)
    /\ UNCHANGED <<data_list, import_mode, device_open, data_thread_started,
                   last_pdo, last_rdo, egg_activated>>
    /\ UNCHANGED <<marker_events, plot_update_job>>
    /\ UNCHANGED <<ui_vars, data_queue, stop_event>>
    /\ UNCHANGED <<worker_vars, env_vars>>
    /\ UNCHANGED side_vars

\* ------------------------------------------------------- the Tk handlers
\* The status clear_list leaves, from the connection and pause state.
ClearStatus(dev, paused, old) ==
    IF paused /\ ~dev THEN "cleared"
    ELSE IF dev /\ paused THEN "cleared_connected"
    ELSE IF dev /\ ~paused THEN "cleared_collecting"
    ELSE old

\* clear_list from its button: askyesno, then the list, the snapshots and the
\* import mode are reset.
ClearList ==
    /\ ui_pc = "idle"
    /\ \E yes \in BOOLEAN :
         IF yes
           THEN /\ data_list' = <<>>
                /\ last_pdo' = NoPkg
                /\ last_rdo' = NoPkg
                /\ import_mode' = FALSE
                /\ status' = ClearStatus(device_open, is_paused, status)
           ELSE UNCHANGED <<data_list, last_pdo, last_rdo, import_mode, status>>
    /\ UNCHANGED <<is_paused, device_open, awaiting_connection_ack, autostart_after_connect,
                   data_thread_started, egg_activated>>
    /\ UNCHANGED <<plot_vars, ui_vars, shared_vars, worker_vars, env_vars>>
    /\ UNCHANGED side_vars

\* connect_device while not connected: confirm clearing a non-empty list, mark
\* the device open and awaiting the first event, start the worker
\* (start_data_thread_if_needed), reset the plot if the plot panel exists.
\* A connect that does not wait for the operator's answer.
ConnectDeclined_Never(yes) == FALSE

\* A worker created with the pause flag clear (to test C30).
NewPauseFlag_Collecting == COLLECTING

\* self.pause_flag = Value('i', 1): a new worker starts paused.
NewPauseFlag == PAUSED

\* askyesno is asked only for a non-empty list; "no" ends the handler.
ConnectDeclined(yes) == Len(data_list) > 0 /\ ~yes

\* A shortcut that never presses "start" after its connect.
F5StartsAfterConnect_Never(open, paused) == FALSE

\* _on_f5_press after connect_device(): "if self.device_open and self.is_paused".
F5StartsAfterConnect(open, paused) == open /\ paused

\* connect_device while not connected, called from its button (start = FALSE)
\* or from _on_f5_press, which calls pause_collection after it (start = TRUE).
ConnectDeviceThen(yes, start) ==
    /\ ui_pc = "idle"
    /\ ~device_open
    /\ connects < MaxConnects
    /\   IF ConnectDeclined(yes)
           THEN UNCHANGED vars
           ELSE /\ connects' = connects + 1
                /\ data_list' = <<>>
                /\ IF Len(data_list) > 0
                     THEN /\ last_pdo' = NoPkg
                          /\ last_rdo' = NoPkg
                          /\ import_mode' = FALSE
                     ELSE UNCHANGED <<last_pdo, last_rdo, import_mode>>
                /\ device_open' = TRUE
                /\ is_paused' = TRUE
                /\ status' = "connecting"
                /\ awaiting_connection_ack' = TRUE
                /\ autostart_after_connect' =
                       (/\ start
                        /\ F5StartsAfterConnect(device_open', is_paused')
                        /\ is_paused' /\ awaiting_connection_ack')
                /\ IF ~data_thread_started
                     THEN /\ data_queue' = <<>>
                          /\ iv_queue' = <<>>
                          /\ stop_event' = "clear"
                          /\ pause_flag' = NewPauseFlag
                          /\ w_pc' = "start"
                          /\ w_pkg' = NoPkg
                          /\ w_last_pdo' = NoPkg
                          /\ w_last_rdo' = NoPkg
                          /\ w_last_general_timestamp' = 0
                          /\ queue_consumer_running' = TRUE
                          /\ data_thread_started' = TRUE
                     ELSE UNCHANGED <<shared_vars, worker_vars, queue_consumer_running,
                                      data_thread_started>>
                /\ IF egg_activated
                     THEN /\ plot_times' = <<>>
                          /\ plot_voltage' = <<>>
                          /\ plot_current' = <<>>
                          /\ plot_start_time' = NoTime
                          /\ marker_events' = <<>>
                          /\ plot_update_job' = TRUE
                     ELSE UNCHANGED <<plot_times, plot_voltage, plot_current,
                                      plot_start_time, marker_events, plot_update_job>>
                /\ UNCHANGED <<egg_activated, iv_info, ui_pc, ui_callbacks,
                               now, reads>>
    /\ UNCHANGED side_vars

ConnectDeviceAnswer(yes) == ConnectDeviceThen(yes, FALSE)

ConnectDevice == \E yes \in BOOLEAN : ConnectDeviceAnswer(yes)

\* _stop_collection_process up to its wait: stop_event.set(), then join / sleep.
StopSignal == IF stop_event = "none" THEN "none" ELSE "set"

\* connect_device while connected (disconnect): it first stops the worker.
DisconnectDevice ==
    /\ ui_pc = "idle"
    /\ device_open
    /\ stop_event' = StopSignal
    /\ ui_pc' = "stop_user"
    /\ UNCHANGED <<gui_vars, plot_vars, ui_callbacks, queue_consumer_running>>
    /\ UNCHANGED <<data_queue, iv_queue, pause_flag, worker_vars, env_vars>>
    /\ UNCHANGED side_vars

\* Handlers that leave the device marked open (to test C19).
HandlerDeviceOpen_Kept == device_open

\* A controller that leaves a session without clearing its latch.
LeaveLatch_Kept == autostart_after_connect

\* self.autostart_after_connect = False on every way out of a session:
\* connect_device's disconnect branch, _handle_device_disconnect,
\* _handle_connection_failed.
LeaveLatch == FALSE

\* self.device_open = False in _handle_device_disconnect and in
\* _handle_connection_failed.
HandlerDeviceOpen == FALSE

\* A pending root.after(0, ...) callback runs: _handle_device_disconnect up to the
\* wait inside _stop_collection_process, or _handle_connection_failed up to it.
RunCallback ==
    /\ ui_pc = "idle"
    /\ ui_callbacks # <<>>
    /\ ui_callbacks' = Tail(ui_callbacks)
    /\ stop_event' = StopSignal
    /\ IF Head(ui_callbacks) = "handle_device_disconnect"
         THEN /\ ui_pc' = "stop_lost"
              /\ is_paused' = TRUE
              /\ device_open' = HandlerDeviceOpen
              /\ awaiting_connection_ack' = FALSE
              /\ autostart_after_connect' = LeaveLatch
              /\ last_pdo' = NoPkg
              /\ last_rdo' = NoPkg
              /\ status' = "device_lost"
              /\ iv_info' = NoIvInfo
              /\ plot_update_job' = FALSE
         ELSE /\ ui_pc' = "stop_failed"
              /\ UNCHANGED <<is_paused, device_open, awaiting_connection_ack,
                             autostart_after_connect, last_pdo, last_rdo, status,
                             iv_info, plot_update_job>>
    /\ UNCHANGED <<data_list, import_mode, data_thread_started, egg_activated>>
    /\ UNCHANGED <<plot_times, plot_voltage, plot_current, plot_start_time, marker_events>>
    /\ UNCHANGED <<queue_consumer_running, data_queue, iv_queue, pause_flag>>
    /\ UNCHANGED <<worker_vars, env_vars>>
    /\ UNCHANGED side_vars

\* A controller that joins but never terminates (to test C18).
WorkerAfterStop_NoTerminate(pc) == pc

\* The worker after join(timeout) and terminate(): a process still alive is
\* killed; one that had exited stays exited.
WorkerAfterStop(pc) == IF pc \in {"none", "exited"} THEN pc ELSE "none"

\* The rest of _stop_collection_process (terminate, discard both queues, drop the
\* stop event and the pause flag) and of the handler that called it.
StopFinish ==
    /\ ui_pc \in {"stop_user", "stop_lost", "stop_failed"}
    /\ ui_pc' = "idle"
    /\ w_pc' = WorkerAfterStop(w_pc)
    /\ data_thread_started' = FALSE
    /\ data_queue' = <<>>
    /\ iv_queue' = <<>>
    /\ stop_event' = "none"
    /\ pause_flag' = NoFlag
    /\ IF ui_pc = "stop_lost"
         THEN UNCHANGED <<is_paused, device_open, awaiting_connection_ack,
                          autostart_after_connect, last_pdo, last_rdo, status,
                          iv_info, plot_update_job>>
         ELSE /\ device_open' = IF ui_pc = "stop_failed" THEN HandlerDeviceOpen ELSE FALSE
              /\ is_paused' = TRUE
              /\ awaiting_connection_ack' = FALSE
              /\ autostart_after_connect' = LeaveLatch
              /\ iv_info' = NoIvInfo
              /\ plot_update_job' = FALSE
              /\ IF ui_pc = "stop_user"
                   THEN /\ last_pdo' = NoPkg
                        /\ last_rdo' = NoPkg
                        /\ status' = "disconnected"
                   ELSE /\ UNCHANGED <<last_pdo, last_rdo>>
                        /\ status' = "connection_failed"
    /\ UNCHANGED <<data_list, import_mode, egg_activated>>
    /\ UNCHANGED <<plot_times, plot_voltage, plot_current, plot_start_time, marker_events>>
    /\ UNCHANGED <<ui_callbacks, queue_consumer_running>>
    /\ UNCHANGED <<w_pkg, w_last_pdo, w_last_rdo, w_last_general_timestamp, env_vars>>
    /\ UNCHANGED side_vars

\* pause_collection (the pause button is enabled only while device_open).
\* Paused and awaiting the first event: latch the request.  Paused otherwise:
\* resume, clearing imported data first (askyesno).  Collecting: pause.
\* A resume that goes on whatever the operator answers.
ResumeRefused_Never(yes) == FALSE

\* the resume is refused: imported data in the list and askyesno answered "no"
ResumeRefused(yes) == import_mode /\ Len(data_list) > 0 /\ ~yes

\* A pause button that never latches (to test C29).
LatchesStart_Never == FALSE

\* "if self.is_paused: if self.awaiting_connection_ack": the request is latched.
LatchesStart == is_paused /\ awaiting_connection_ack

PauseCollectionAnswer(yes) ==
    /\ ui_pc = "idle"
    /\ device_open
    /\   IF LatchesStart
           THEN /\ autostart_after_connect' = TRUE
                /\ UNCHANGED <<data_list, is_paused, import_mode, last_pdo, last_rdo,
                               status, pause_flag>>
         ELSE IF is_paused /\ ResumeRefused(yes)
           THEN UNCHANGED <<data_list, is_paused, import_mode, last_pdo, last_rdo,
                            status, pause_flag, autostart_after_connect>>
         ELSE IF is_paused
           THEN /\ IF import_mode /\ Len(data_list) > 0
                     THEN /\ data_list' = <<>>
                          /\ last_pdo' = NoPkg
                          /\ last_rdo' = NoPkg
                     ELSE UNCHANGED <<data_list, last_pdo, last_rdo>>
                /\ import_mode' = FALSE
                /\ is_paused' = FALSE
                /\ pause_flag' = IF pause_flag # NoFlag THEN COLLECTING ELSE pause_flag
                /\ status' = "collecting"
                /\ UNCHANGED autostart_after_connect
         ELSE /\ is_paused' = TRUE
              /\ pause_flag' = IF pause_flag # NoFlag THEN PAUSED ELSE pause_flag
              /\ status' = "paused"
              /\ UNCHANGED <<data_list, import_mode, last_pdo, last_rdo,
                             autostart_after_connect>>
    /\ UNCHANGED <<device_open, awaiting_connection_ack, data_thread_started,
                   egg_activated>>
    /\ UNCHANGED <<plot_vars, ui_vars, data_queue, iv_queue, stop_event>>
    /\ UNCHANGED <<worker_vars, env_vars>>
    /\ UNCHANGED side_vars

PauseCollection == \E yes \in BOOLEAN : PauseCollectionAnswer(yes)

\* import_csv: refused while collecting; a chosen file replaces the list
\* (askyesno when it is not empty) and every row that decodes to a PD package is
\* appended with force=True; then import mode is entered.
\* An import that is not refused while collecting.
ImportRefused_Never == FALSE

\* "if not self.is_paused": showwarning and return
ImportRefused == ~is_paused

ImportCsvAnswer(file, yes) ==
    /\ ui_pc = "idle"
    /\   IF ImportRefused \/ (Len(data_list) > 0 /\ ~yes)
           THEN UNCHANGED <<data_list, last_pdo, last_rdo, import_mode, status>>
           ELSE LET run == ImportFile[file] IN
                /\ data_list' = run.list
                /\ IF Len(data_list) > 0
                     THEN /\ last_pdo' = NoPkg
                          /\ last_rdo' = NoPkg
                     ELSE UNCHANGED <<last_pdo, last_rdo>>
                /\ import_mode' = TRUE
                /\ status' = IF device_open THEN "import_done" ELSE "import_done_no_device"
    /\ UNCHANGED <<is_paused, device_open, awaiting_connection_ack, autostart_after_connect,
                   data_thread_started, egg_activated>>
    /\ UNCHANGED <<plot_vars, ui_vars, shared_vars, worker_vars, env_vars>>
    /\ UNCHANGED side_vars

ImportCsv == \E file \in CsvFiles, yes \in BOOLEAN : ImportCsvAnswer(file, yes)

\* _activate_easter_egg: the plot panel is created and its refresh scheduled.
ActivateEgg ==
    /\ ui_pc = "idle"
    /\ ~egg_activated
    /\ egg_activated' = TRUE
    /\ plot_update_job' = TRUE
    /\ status' = "developer_mode"
    /\ UNCHANGED <<data_list, is_paused, import_mode, device_open, awaiting_connection_ack,
                   autostart_after_connect, data_thread_started, last_pdo, last_rdo>>
    /\ UNCHANGED <<plot_times, plot_voltage, plot_current, plot_start_time, marker_events,
                   iv_info>>
    /\ UNCHANGED <<ui_vars, shared_vars, worker_vars, env_vars>>
    /\ UNCHANGED side_vars

\* --------------------------------------------------------- specification
NzIdle == [phase |-> "idle", payload |-> <<>>, cell |-> <<>>, frame |-> <<>>]

RpIdle == [phase |-> "idle", F |-> <<>>,
           live |-> [pos |-> 1, last_pdo |-> NoPkg, last_rdo |-> NoPkg,
                     list |-> <<>>, calls |-> <<>>],
           replay |-> [pos |-> 1, ctx |-> NoCtx, list |-> <<>>, calls |-> <<>>]]

ImIdle == [phase |-> "idle", rows |-> <<>>, pos |-> 1, run |-> NoRun, tags |-> <<>>]

\* A worker just started (last_general_timestamp = 0.0) and no frame read.
GateIdle ==
    [phase |-> "idle", gaps |-> <<>>, frames |-> <<>>, pos |-> 1, now |-> T0, last |-> 0,
     sent |-> <<>>]

\* A controller just constructed: empty list, paused, the consumer thread not
\* inside add_data_item.
LgIdle ==
    [list |-> <<>>, paused |-> TRUE, c_pc |-> "idle", c_index |-> 0, c_pkg |-> NoPkg]

\* The marker lines on the axes: how many axvline artists exist per key.
NoArtists == [key \in {} |-> 0]

\* The plot panel just built: empty deques, no marker line, the axes' default
\* x range.
PlIdle ==
    [times |-> <<>>, events |-> <<>>, xlim |-> [lo |-> 0, hi |-> 1],
     map |-> {}, rendered |-> NoArtists, refreshes |-> 0]

\* A session just opened by connect_device: paused, awaiting the first event,
\* nothing latched, a new worker with Value('i', 1); neither thread inside its
\* block.
PfIdle ==
    [is_paused |-> TRUE, awaiting_connection_ack |-> TRUE,
     autostart_after_connect |-> FALSE, pause_flag |-> PAUSED,
     c_pc |-> "idle", u_pc |-> "idle", presses |-> 0]

Init ==
    /\ MainInit
    /\ nz = NzIdle /\ rp = RpIdle /\ im = ImIdle /\ gate = GateIdle /\ lg = LgIdle
    /\ pl = PlIdle /\ pf = PfIdle

Worker ==
    \/ WorkerOpen
    \/ WorkerOpenFails
    \/ WorkerStop
    \/ WorkerRead
    \/ WorkerRaises
    \/ WorkerFatal
    \/ WorkerTransient

Consumer == ConsumePd \/ ConsumeIv

TkCallbacks == RunCallback \/ StopFinish

Operator ==
    \/ ConnectDevice
    \/ DisconnectDevice
    \/ PauseCollection
    \/ ClearList
    \/ ImportCsv
    \/ ActivateEgg

Next == Worker \/ Consumer \/ TkCallbacks \/ Operator

Spec == Init /\ [][Next]_vars

\* _on_f5_press (bound to <F5>): while not connected, connect_device and then,
\* if the device is marked open and paused, pause_collection; while connected,
\* pause_collection if paused and nothing otherwise.
F5Press ==
    /\ ui_pc = "idle"
    /\ \E yes \in BOOLEAN :
         IF ~device_open THEN ConnectDeviceThen(yes, TRUE)
         ELSE IF is_paused THEN PauseCollectionAnswer(yes)
         ELSE UNCHANGED vars

\* The controller with its keyboard shortcut, the plot panel never activated
\* (the shortcut reaches the plot only through connect_device).
OperatorF5 ==
    \/ F5Press
    \/ ConnectDevice
    \/ DisconnectDevice
    \/ PauseCollection
    \/ ClearList
    \/ ImportCsv

NextF5 == Worker \/ Consumer \/ TkCallbacks \/ OperatorF5

SpecF5 == Init /\ [][NextF5]_vars

\* The worker process, the consumer thread (a loop that sleeps 10 ms between
\* drains) and the Tk event loop (pending after(0, ...) callbacks, and the
\* return of join(timeout) / sleep) are scheduled by the operating system and
\* keep running; the operator's actions are not forced.
FairSpec ==
    /\ Spec
    /\ WF_vars(Worker)
    /\ WF_vars(Consumer)
    /\ WF_vars(TkCallbacks)

\* ------------------------------------------- frame normalisation on its own
\* Payload lengths tried: 0 .. MaxPayloadLen bytes.
MaxPayloadLen == 70

\* A payload of n bytes, all different from their neighbours.
PayloadOf(n, seed) == [i \in 1..n |-> (seed + 7 * i) % 256]

PayloadSeeds == {0, 9, 250}

\* The Raw column as export_list writes it: upper-case hex, two digits a byte.
\* one hex digit 0..15, upper case
HexDigit(v) == HexChars[IF v < 10 THEN v + 1 ELSE v + 7]

HexOfBytes(bytes) ==
    [i \in 1..(2 * Len(bytes)) |->
        IF i % 2 = 1 THEN HexDigit(bytes[(i + 1) \div 2] \div 16)
        ELSE HexDigit(bytes[i \div 2] % 16)]

ToLower(c) ==
    IF \E i \in 17..22 : HexChars[i] = c
      THEN HexChars[(CHOOSE i \in 17..22 : HexChars[i] = c) - 6]
      ELSE c

\* a space after every two digits
Spaced(s) ==
    [i \in 1..(3 * (Len(s) \div 2)) |->
        IF i % 3 = 0 THEN " " ELSE s[2 * ((i - 1) \div 3) + ((i - 1) % 3) + 1]]

CellStyles == {"plain", "0x", "0X", "lower", "spaced", "odd", "garbled"}

\* The ways a Raw cell can spell a payload that import_csv accepts, and one it
\* rejects ("garbled").
CellOf(payload, style) ==
    LET hex == HexOfBytes(payload) IN
    IF style = "0x" THEN <<"0", "x">> \o hex
    ELSE IF style = "0X" THEN <<"0", "X">> \o hex
    ELSE IF style = "lower" THEN [i \in 1..Len(hex) |-> ToLower(hex[i])]
    ELSE IF style = "spaced" THEN <<" ">> \o Spaced(hex) \o <<" ">>
    ELSE IF style = "odd" /\ hex # <<>> /\ Head(hex) = "0" THEN Tail(hex)
    ELSE IF style = "garbled" THEN hex \o <<"g">>
    ELSE hex

NzPick ==
    /\ nz.phase = "idle"
    /\ \E n \in 0..MaxPayloadLen, seed \in PayloadSeeds, style \in CellStyles :
         LET payload == PayloadOf(n, seed) IN
         nz' = [phase |-> "cell", payload |-> payload,
                cell |-> CellOf(payload, style), frame |-> <<>>]
    /\ UNCHANGED <<main_vars, rp, im, gate, lg, pl, pf>>

\* The row of the reader loop up to the parser call.
NzNormalize ==
    /\ nz.phase = "cell"
    /\ LET raw_hex == Strip(nz.cell)
           text == CleanHex(raw_hex) IN
       IF raw_hex = <<>> \/ ~HexOk(text)
         THEN nz' = [nz EXCEPT !.phase = "rejected"]
         ELSE nz' = [nz EXCEPT !.phase = "done", !.frame = ImportFrame(text)]
    /\ UNCHANGED <<main_vars, rp, im, gate, lg, pl, pf>>

NzNext ==
    /\ nz.phase \in {"done", "rejected"}
    /\ nz' = NzIdle
    /\ UNCHANGED <<main_vars, rp, im, gate, lg, pl, pf>>

SpecNormalize == Init /\ [][NzPick \/ NzNormalize \/ NzNext]_vars

\* C6 (frame normalisation): whatever the length n of the payload a Raw cell
\* spells, the frame handed to the parser has exactly 64 bytes, its first
\* min(n, 64) bytes are the payload's first bytes in order, and all the others
\* are zero.
C6_FrameNormalization ==
    nz.phase = "done" =>
        /\ Len(nz.frame) = FRAME_LEN
        /\ \A i \in 1..FRAME_LEN :
             nz.frame[i] = IF i <= Len(nz.payload) THEN nz.payload[i] ELSE 0

\* A 70-byte payload was normalised: the frame is its first 64 bytes.
C6_Witness ==
    /\ nz.phase = "done"
    /\ Len(nz.payload) = 70
    /\ nz.frame = SubSeq(nz.payload, 1, FRAME_LEN)

\* ------------------------------------- live decode and replay side by side
\* Frame sequences tried: 1 .. MaxFrames frames.
MaxFrames == 3

\* Leading bytes of the frames of a sequence (0: a frame that does not decode).
ReplayBytes == {0, 1, 3, 4, 5, 6}

FrameSeqs == UNION {[1..n -> ReplayBytes] : n \in 1..MaxFrames}

\* What a call of the decoder was handed.
DecoderCall(frame, lpdo, lext, lrdo) ==
    [frame |-> frame, last_pdo |-> lpdo, last_ext |-> lext, last_rdo |-> lrdo]

\* What an entry of the list shows: its index and its package.
Entries(list) == [i \in 1..Len(list) |-> [index |-> list[i].index, data |-> list[i].data]]

RpPick ==
    /\ rp.phase = "idle"
    /\ \E F \in FrameSeqs : rp' = [RpIdle EXCEPT !.phase = "live", !.F = F]
    /\ UNCHANGED <<main_vars, nz, im, gate, lg, pl, pf>>

\* The worker (never paused, queues never full) and the consumer on the next
\* frame of F: auto_unpack() without context, the context the worker keeps, and
\* add_data_item for a 'pd' package.
RpLive ==
    /\ rp.phase = "live"
    /\ LET l == rp.live
           frame == DeviceFrame(rp.F[l.pos], 0, 0)
           pkg == WorkerUnpack(frame)
           after ==
               [pos |-> l.pos + 1,
                last_pdo |-> IF pkg.field = "pd" THEN WorkerNextPdo(pkg, l.last_pdo)
                             ELSE l.last_pdo,
                last_rdo |-> IF pkg.field = "pd" THEN WorkerNextRdo(pkg, l.last_rdo)
                             ELSE l.last_rdo,
                list |-> IF pkg.field = "pd" THEN add_data_item(l.list, pkg, FALSE, FALSE)
                         ELSE l.list,
                calls |-> Append(l.calls, DecoderCall(frame, NoPkg, NoPkg, NoPkg))] IN
       rp' = [rp EXCEPT !.live = after,
                        !.phase = IF l.pos = Len(rp.F) THEN "replay" ELSE "live"]
    /\ UNCHANGED <<main_vars, nz, im, gate, lg, pl, pf>>

\* import_csv on the row that export_list wrote for the next frame of F.
RpReplay ==
    /\ rp.phase = "replay"
    /\ LET r == rp.replay
           frame == DeviceFrame(rp.F[r.pos], 0, 0)
           row == ImportRow(HexOfBytes(frame), r.ctx)
           after ==
               [pos |-> r.pos + 1,
                ctx |-> row.ctx,
                list |-> IF row.tag = "pd" THEN add_data_item(r.list, row.pkg, TRUE, TRUE)
                         ELSE r.list,
                calls |-> IF row.tag \in {"empty", "badhex"} THEN r.calls
                          ELSE Append(r.calls,
                                      DecoderCall(ImportFrame(CleanHex(Strip(HexOfBytes(frame)))),
                                                  r.ctx.last_pdo, r.ctx.last_ext,
                                                  r.ctx.last_rdo))] IN
       rp' = [rp EXCEPT !.replay = after,
                        !.phase = IF r.pos = Len(rp.F) THEN "done" ELSE "replay"]
    /\ UNCHANGED <<main_vars, nz, im, gate, lg, pl, pf>>

RpNext ==
    /\ rp.phase = "done"
    /\ rp' = RpIdle
    /\ UNCHANGED <<main_vars, nz, im, gate, lg, pl, pf>>

SpecReplay == Init /\ [][RpPick \/ RpLive \/ RpReplay \/ RpNext]_vars

\* C4 (replay parity): for every frame sequence F, the live path and the import
\* path hand the decoder the same frame and the same context at every position
\* of F, and the lists they build show the same entries in the same order.
C4_ReplayParity ==
    rp.phase = "done" =>
        /\ rp.live.calls = rp.replay.calls
        /\ Entries(rp.live.list) = Entries(rp.replay.list)

\* --------------------------------------------- the reader loop row by row
\* Files tried: 1 .. MaxRows rows.
MaxRows == 3

\* Raw cells: blank, not hex, a frame the decoder rejects, a capability, a
\* request and an extended-context message, a telemetry frame, and a
\* capability written with prefix and spaces.
RawCells ==
    { <<" ">>, <<"z", "z">>, <<"0", "0">>, <<"0", "1">>, <<"3">>, <<"0", "4">>,
      <<"0", "6">>, <<" ", "0", "X", "0", "1", " ">> }

RowSeqs == UNION {[1..n -> RawCells] : n \in 1..MaxRows}

ImPick ==
    /\ im.phase = "idle"
    /\ \E rows \in RowSeqs : im' = [ImIdle EXCEPT !.phase = "rows", !.rows = rows]
    /\ UNCHANGED <<main_vars, nz, rp, gate, lg, pl, pf>>

\* "for row in reader": the next row (tags keeps what became of each row).
ImRow ==
    /\ im.phase = "rows"
    /\ LET raw == im.rows[im.pos] IN
       im' = [im EXCEPT !.run = ImportStep(im.run, raw),
                        !.tags = Append(im.tags, ImportRow(raw, im.run.ctx).tag),
                        !.pos = im.pos + 1,
                        !.phase = IF im.pos = Len(im.rows) THEN "done" ELSE "rows"]
    /\ UNCHANGED <<main_vars, nz, rp, gate, lg, pl, pf>>

ImNext ==
    /\ im.phase = "done"
    /\ im' = ImIdle
    /\ UNCHANGED <<main_vars, nz, rp, gate, lg, pl, pf>>

SpecImport == Init /\ [][ImPick \/ ImRow \/ ImNext]_vars

\* ------------------------------------- the 10 Hz gate over telemetry frames
\* Telemetry frames in one run of a worker.
MaxGaps == 3

\* Time between two telemetry frames (ms): 30 and 50 are inside the period,
\* 70 adds up with 30 to the period exactly, 100 is the period.
GapSet == {30, 50, 70, 100}

GapSeqs == UNION {[1..n -> GapSet] : n \in 1..MaxGaps}

\* Telemetry frames read: 1.5 A at 5.0 V, -1.5 A at 5.0 V, no current at 9.0 V
\* (current in 0.1 A, voltage in 0.1 V, so power in 0.01 W).
GeneralFrames == {DeviceFrame(6, 15, 50), DeviceFrame(6, 241, 50), DeviceFrame(6, 0, 90)}

GatePick ==
    /\ gate.phase = "idle"
    /\ \E gaps \in GapSeqs :
         \E frames \in [1..Len(gaps) -> GeneralFrames] :
            gate' = [GateIdle EXCEPT !.phase = "frames", !.gaps = gaps, !.frames = frames]
    /\ UNCHANGED <<main_vars, nz, rp, im, lg, pl, pf>>

\* One loop iteration of a worker on a 'general' frame: the event it hands to
\* iv_queue.put_nowait is recorded in sent.
GateFrame ==
    /\ gate.phase = "frames"
    /\ LET t == gate.now + gate.gaps[gate.pos] IN
       gate' = [gate EXCEPT
                  !.now = t,
                  !.sent = Append(gate.sent,
                                  IvEvent(WorkerUnpack(gate.frames[gate.pos]), t,
                                          update_iv_info(t, gate.last))),
                  !.last = NextGeneralTimestamp(t, gate.last),
                  !.pos = gate.pos + 1,
                  !.phase = IF gate.pos = Len(gate.gaps) THEN "done" ELSE "frames"]
    /\ UNCHANGED <<main_vars, nz, rp, im, lg, pl, pf>>

GateNext ==
    /\ gate.phase = "done"
    /\ gate' = GateIdle
    /\ UNCHANGED <<main_vars, nz, rp, im, lg, pl, pf>>

SpecGate == Init /\ [][GatePick \/ GateFrame \/ GateNext]_vars

\* ---------------------------------------------------------------------------
\* add_data_item statement by statement.  The consumer thread runs it for every
\* control event; clear_list, pause_collection and import_csv run on the Tk
\* thread; data_list is a plain list that no lock protects, so the Tk thread
\* can run between any two statements of the consumer.
\* ---------------------------------------------------------------------------
MaxLog == 4
LogPkgs == {WorkerUnpack(DeviceFrame(1, b, 0)) : b \in {1, 3}}

\* Consumer thread, add_data_item up to the index: the pause gate is passed
\* (force is False on this path) and index = len(self.data_list) + 1 is read.
LogIndex ==
    /\ lg.c_pc = "idle"
    /\ ~lg.paused
    /\ Len(lg.list) < MaxLog
    /\ \E pkg \in LogPkgs :
         lg' = [lg EXCEPT !.c_pc = "append", !.c_index = Len(lg.list) + 1, !.c_pkg = pkg]
    /\ UNCHANGED <<main_vars, nz, rp, im, gate, pl, pf>>

\* Consumer thread, the rest of add_data_item: the DataItem built with the
\* index read before is appended.
LogAppend ==
    /\ lg.c_pc = "append"
    /\ lg' = [lg EXCEPT
                !.list = Append(lg.list, [index |-> lg.c_index, data |-> lg.c_pkg,
                                          forced |-> FALSE]),
                !.c_pc = "idle", !.c_index = 0, !.c_pkg = NoPkg]
    /\ UNCHANGED <<main_vars, nz, rp, im, gate, pl, pf>>

\* Tk thread, clear_list confirmed: self.data_list.clear().
LogClear ==
    /\ lg' = [lg EXCEPT !.list = <<>>]
    /\ UNCHANGED <<main_vars, nz, rp, im, gate, pl, pf>>

\* Tk thread, pause_collection on an open device: is_paused is toggled.
LogPause ==
    /\ lg' = [lg EXCEPT !.paused = ~lg.paused]
    /\ UNCHANGED <<main_vars, nz, rp, im, gate, pl, pf>>

\* The list after n rows were appended by import_csv (force=True).
RECURSIVE LogImported(_, _)
LogImported(list, n) ==
    IF n = 0 THEN list
    ELSE add_data_item(LogImported(list, n - 1), WorkerUnpack(DeviceFrame(1, 1, 0)),
                       TRUE, TRUE)

\* Tk thread, import_csv: refused while collecting; the list is cleared
\* (clear_list(ask_user=False)) and the rows of the file are appended.
LogImport ==
    /\ lg.paused
    /\ \E n \in 1..(MaxLog - 1) : lg' = [lg EXCEPT !.list = LogImported(<<>>, n)]
    /\ UNCHANGED <<main_vars, nz, rp, im, gate, pl, pf>>

SpecLog == Init /\ [][LogIndex \/ LogAppend \/ LogClear \/ LogPause \/ LogImport]_vars

\* ---------------------------------------------------------------------------
\* The plot panel on its own: samples and marker events arrive from the
\* consumer, _update_plot runs on its timer, _reset_plot on a connect.  Times
\* are relative times in whole seconds.
\* ---------------------------------------------------------------------------
PLOT_WINDOW_SECONDS == 60
MaxPlotTime == 80
MaxRefreshes == 3
SampleGaps == {40}

\* _append_plot_point with the origin already subtracted: the first point is
\* stored at 0, later ones after it.
PlotSample ==
    /\ \E dt \in SampleGaps :
         LET t == IF pl.times = <<>> THEN 0 ELSE pl.times[Len(pl.times)] + dt IN
         /\ t <= MaxPlotTime
         /\ pl' = [pl EXCEPT !.times = DequeAppend(pl.times, t, PLOT_MAXLEN)]
    /\ UNCHANGED <<main_vars, nz, rp, im, gate, lg, pf>>

\* _append_marker_event for a control message read at the newest sample's time
\* (recorded only once the origin is known, that is once a sample exists).
PlotMarker ==
    /\ pl.times # <<>>
    /\ \E kind \in {"pdo", "rdo"} :
         pl' = [pl EXCEPT !.events = append_marker_event(pl.events, 0,
                                                          pl.times[Len(pl.times)], kind)]
    /\ UNCHANGED <<main_vars, nz, rp, im, gate, lg, pf>>

SeqMax(times) == CHOOSE m \in {times[k] : k \in 1..Len(times)} :
                     \A k \in 1..Len(times) : times[k] <= m

\* A window whose lower bound is clamped at zero.
PlotWindow_Clamped(times) ==
    LET t_max == SeqMax(times)
        t_min == t_max - PLOT_WINDOW_SECONDS IN
    [lo |-> IF t_min < 0 THEN 0 ELSE t_min, hi |-> t_max]

\* _update_plot: t_max = max(plot_times), t_min = t_max - plot_window_seconds,
\* set_xlim(t_min, t_max).
PlotWindow(times) ==
    LET t_max == SeqMax(times) IN
    [lo |-> t_max - PLOT_WINDOW_SECONDS, hi |-> t_max]

\* A refresh that never finds a marker in its map.
MarkerRendered_Never(key, map) == FALSE

\* 'if key in self._marker_artists_map: continue'
MarkerRendered(key, map) == key \in map

\* plot_ax_v.axvline(x=x, ...): one more line on the axes at this key.
AddArtist(rendered, key) ==
    [k \in DOMAIN rendered \cup {key} |->
        IF k = key THEN (IF k \in DOMAIN rendered THEN rendered[k] + 1 ELSE 1)
        ELSE rendered[k]]

\* The lazy creation loop of _update_plot over the marker events: one axvline
\* per event whose key is not in the map yet.
RECURSIVE RenderMarkers(_, _)
RenderMarkers(evts, drawn) ==
    IF evts = <<>> THEN drawn
    ELSE LET key == Head(evts) IN
         RenderMarkers(Tail(evts),
                       IF MarkerRendered(key, drawn.map) THEN drawn
                       ELSE [map |-> drawn.map \cup {key},
                             rendered |-> AddArtist(drawn.rendered, key)])

\* One run of _update_plot on its timer: nothing is drawn while no sample
\* exists; otherwise the x range follows the newest sample and the marker
\* events without a line get one (keep_marker_history is True).
PlotRefresh ==
    /\ pl.refreshes < MaxRefreshes
    /\ IF pl.times = <<>>
         THEN pl' = [pl EXCEPT !.refreshes = pl.refreshes + 1]
         ELSE LET drawn == RenderMarkers(pl.events,
                                         [map |-> pl.map, rendered |-> pl.rendered]) IN
              pl' = [pl EXCEPT !.xlim = PlotWindow(pl.times),
                               !.map = drawn.map,
                               !.rendered = drawn.rendered,
                               !.refreshes = pl.refreshes + 1]
    /\ UNCHANGED <<main_vars, nz, rp, im, gate, lg, pf>>

\* The artists left on the axes after every artist of the map was removed
\* (a.remove() for every artist of the map).
RemoveArtists(rendered, map) ==
    [key \in DOMAIN rendered \ map |-> rendered[key]]

\* _reset_plot: deques and marker events cleared, every artist of the map
\* removed and the map emptied, x range back to (0, plot_window_seconds).
PlotReset ==
    /\ pl' = [times |-> <<>>, events |-> <<>>,
              xlim |-> [lo |-> 0, hi |-> PLOT_WINDOW_SECONDS],
              map |-> {}, rendered |-> RemoveArtists(pl.rendered, pl.map),
              refreshes |-> 0]
    /\ UNCHANGED <<main_vars, nz, rp, im, gate, lg, pf>>

SpecPlot == Init /\ [][PlotSample \/ PlotMarker \/ PlotRefresh \/ PlotReset]_vars

\* ---------------------------------------------------------------------------
\* One session, statement by statement: the consumer thread runs its
\* confirmation block on the first event, the Tk thread runs pause_collection
\* when the operator presses the button or F5.  is_paused,
\* awaiting_connection_ack and autostart_after_connect are plain attributes and
\* pause_flag.value is written by both threads; no lock orders the two blocks.
\* ---------------------------------------------------------------------------
MaxPresses == 3
FlagFrame == UNCHANGED <<main_vars, nz, rp, im, gate, lg, pl>>

\* Consumer, "if self.device_open and self.awaiting_connection_ack": the first
\* event confirms; self.awaiting_connection_ack = False.
FlagConfirm ==
    /\ pf.c_pc = "idle"
    /\ pf.awaiting_connection_ack
    /\ pf' = [pf EXCEPT !.awaiting_connection_ack = FALSE, !.c_pc = "confirmed"]
    /\ FlagFrame

\* Consumer, "if self.autostart_after_connect:".
FlagAutostartTest ==
    /\ pf.c_pc = "confirmed"
    /\ pf' = [pf EXCEPT !.c_pc = IF pf.autostart_after_connect THEN "resume" ELSE "idle"]
    /\ FlagFrame

\* Consumer, self.is_paused = False.
FlagAutostartPaused ==
    /\ pf.c_pc = "resume"
    /\ pf' = [pf EXCEPT !.is_paused = FALSE, !.c_pc = "flag"]
    /\ FlagFrame

\* Consumer, self.pause_flag.value = 0.
FlagAutostartFlag ==
    /\ pf.c_pc = "flag"
    /\ pf' = [pf EXCEPT !.pause_flag = COLLECTING, !.c_pc = "unlatch"]
    /\ FlagFrame

\* Consumer, self.autostart_after_connect = False.
FlagAutostartUnlatch ==
    /\ pf.c_pc = "unlatch"
    /\ pf' = [pf EXCEPT !.autostart_after_connect = FALSE, !.c_pc = "idle"]
    /\ FlagFrame

\* Tk thread, pause_collection entered: the branch is chosen from is_paused
\* and awaiting_connection_ack (not in import mode).
FlagPress ==
    /\ pf.u_pc = "idle"
    /\ pf.presses < MaxPresses
    /\ pf' = [pf EXCEPT
                !.presses = pf.presses + 1,
                !.u_pc = IF pf.is_paused /\ pf.awaiting_connection_ack THEN "latch"
                         ELSE IF pf.is_paused THEN "resume" ELSE "pause"]
    /\ FlagFrame

\* Tk thread, self.autostart_after_connect = True; return.
FlagLatch ==
    /\ pf.u_pc = "latch"
    /\ pf' = [pf EXCEPT !.autostart_after_connect = TRUE, !.u_pc = "idle"]
    /\ FlagFrame

\* Tk thread, self.is_paused = False / True.
FlagSetPaused ==
    /\ pf.u_pc \in {"resume", "pause"}
    /\ pf' = [pf EXCEPT !.is_paused = (pf.u_pc = "pause"),
                        !.u_pc = IF pf.u_pc = "pause" THEN "pause_flag" ELSE "resume_flag"]
    /\ FlagFrame

\* Tk thread, self.pause_flag.value = 0 / 1.
FlagSetFlag ==
    /\ pf.u_pc \in {"resume_flag", "pause_flag"}
    /\ pf' = [pf EXCEPT !.pause_flag = IF pf.u_pc = "pause_flag" THEN PAUSED ELSE COLLECTING,
                        !.u_pc = "idle"]
    /\ FlagFrame

SpecFlag ==
    Init /\ [][FlagConfirm \/ FlagAutostartTest \/ FlagAutostartPaused \/ FlagAutostartFlag
                \/ FlagAutostartUnlatch \/ FlagPress \/ FlagLatch \/ FlagSetPaused
                \/ FlagSetFlag]_vars

\* C15 (replay failure handling): a row that is blank, not hex or rejected by
\* the decoder is counted as failed, adds nothing to the list, leaves the replay
\* context as it was, and the loop goes on to the next row; when the loop ends
\* success + failed is the number of rows and success the number of entries.
C15_ReplayFailureHandling ==
    [][ /\ (ImRow /\ ImportRow(im.rows[im.pos], im.run.ctx).tag
                         \in {"empty", "badhex", "undecodable"}) =>
             /\ im'.run.failed = im.run.failed + 1
             /\ im'.run.success = im.run.success
             /\ im'.run.ctx = im.run.ctx
             /\ im'.run.list = im.run.list
             /\ im'.pos = im.pos + 1
             /\ im'.phase = IF im.pos < Len(im.rows) THEN "rows" ELSE "done"
        /\ (im'.phase = "done") =>
             /\ im'.pos = Len(im'.rows) + 1
             /\ im'.run.success + im'.run.failed = Len(im'.rows)
             /\ im'.run.success = Len(im'.run.list)
      ]_vars

\* A three-row file was read to its end: a capability row set the context, a
\* row that is not hex was skipped without touching it, and the row after it
\* was still appended.
C15_Witness ==
    /\ im.phase = "done"
    /\ im.tags = <<"pd", "badhex", "pd">>
    /\ im.run.success = 2 /\ im.run.failed = 1
    /\ im.run.ctx.last_pdo # NoPkg

\* C16 (replay is unconditional): every row that decodes to a 'pd' package is
\* appended at the end of the list with force=True, the controller being paused,
\* so the list is the 'pd' rows in row order; no other row changes the list.
C16_ReplayUnconditional ==
    [][ ImRow =>
          LET row == ImportRow(im.rows[im.pos], im.run.ctx) IN
          IF row.tag = "pd"
            THEN im'.run.list = Append(im.run.list,
                                       [index |-> Len(im.run.list) + 1, data |-> row.pkg,
                                        forced |-> TRUE])
            ELSE im'.run.list = im.run.list
      ]_vars

\* Three 'pd' rows were read and the list holds the three, in row order.
C16_Witness ==
    /\ im.phase = "done"
    /\ im.tags = <<"pd", "pd", "pd">>
    /\ Len(im.run.list) = 3
    /\ \A i \in 1..3 : im.run.list[i].index = i /\ im.run.list[i].forced
    /\ im.run.list[1].data.id = 1 /\ im.run.list[2].data.id = 3 /\ im.run.list[3].data.id = 4

\* ------------------------------------------------ properties of the session
\* C1 (pause correctness): from a state where the controller is paused no step
\* adds a live entry to data_list, whatever the worker reads and whatever is
\* still pending in data_queue; and telemetry does not look at the pause: a
\* 'general' frame read by the worker is sent whatever pause_flag is, and a
\* telemetry event drained by the consumer pushes one sample to the plot
\* buffers whatever is_paused is.
C1_PauseCorrectness ==
    [][ /\ is_paused =>
             \A i \in 1..Len(data_list') :
                 ~data_list'[i].forced => (i <= Len(data_list) /\ data_list[i] = data_list'[i])
        /\ (WorkerRead /\ w_pkg'.field = "general") =>
             iv_queue' = put_nowait(iv_queue,
                                    IvEvent(w_pkg', now',
                                            now' - w_last_general_timestamp >= IV_INFO_PERIOD_MS),
                                    IV_QUEUE_MAXSIZE)
        /\ ConsumeIv =>
             /\ plot_times' = DequeAppend(plot_times, Head(iv_queue).timestamp - plot_start_time',
                                          PLOT_MAXLEN)
             /\ plot_voltage' = DequeAppend(plot_voltage, Head(iv_queue).voltage, PLOT_MAXLEN)
             /\ plot_current' = DequeAppend(plot_current, Head(iv_queue).current, PLOT_MAXLEN)
      ]_vars

\* The controller was paused by the operator, a capability message that was
\* still pending in data_queue has since been drained (its snapshot is shown)
\* without entering the list, and telemetry has reached the plot buffers.
C1_Witness ==
    /\ device_open /\ is_paused /\ ~awaiting_connection_ack
    /\ status = "paused"
    /\ pause_flag = PAUSED
    /\ last_pdo # NoPkg
    /\ data_list = <<>>
    /\ plot_times # <<>>

\* C2 (connection-confirmation gating): while the controller awaits the first
\* event of a connection, the status never announces that the device is
\* connected.
C2_NoConnectedBeforeFirstEvent ==
    awaiting_connection_ack => status \notin {"connected", "cleared_connected"}

\* C3 (reconnect isolation): the connect that follows the handling of a fatal
\* disconnect leaves the decode context of the worker and of the controller
\* empty and the plot buffers without any sample.
C3_ReconnectIsolation ==
    [][ (ConnectDevice /\ status = "device_lost" /\ device_open') =>
            /\ w_last_pdo' = NoPkg /\ w_last_rdo' = NoPkg
            /\ last_pdo' = NoPkg /\ last_rdo' = NoPkg
            /\ plot_times' = <<>> /\ plot_voltage' = <<>> /\ plot_current' = <<>>
            /\ plot_start_time' = NoTime
      ]_vars

\* C5 (context while paused): a 'pd' frame read while the pause flag is set is
\* not sent, and the worker's context still takes it when it is a capability
\* or a request message.
C5_ContextWhilePaused ==
    [][ (WorkerRead /\ pause_flag = PAUSED /\ w_pkg'.field = "pd") =>
            /\ data_queue' = data_queue
            /\ w_last_pdo' = WorkerNextPdo(w_pkg', w_last_pdo)
            /\ w_last_rdo' = WorkerNextRdo(w_pkg', w_last_rdo)
      ]_vars

\* C7 (fatal error sentinel): the step that handles a 'read error' puts one
\* 'device_disconnected' event at the end of data_queue and ends the worker,
\* whatever data_queue holds.
C7_FatalSentinel ==
    [][ WorkerFatal =>
            /\ data_queue' = Append(data_queue, ErrorEvent("device_disconnected"))
            /\ w_pc' = "exited"
      ]_vars

\* C9 (drop on full): neither queue ever holds more than its capacity, and a
\* read whose event finds its queue full leaves the queue as it was and brings
\* the worker back to the top of its loop.
C9_DropOnFull ==
    [][ /\ Len(data_queue') <= DATA_QUEUE_MAXSIZE
        /\ Len(iv_queue') <= IV_QUEUE_MAXSIZE
        /\ (WorkerRead /\ w_pkg'.field = "general" /\ Len(iv_queue) = IV_QUEUE_MAXSIZE) =>
             (iv_queue' = iv_queue /\ w_pc' = "loop")
        /\ (WorkerRead /\ w_pkg'.field = "pd" /\ Len(data_queue) = DATA_QUEUE_MAXSIZE) =>
             (data_queue' = data_queue /\ w_pc' = "loop")
      ]_vars

\* data_queue is full of events older than the last read, and that read was a
\* 'pd' frame taken while collecting: its event was discarded and the worker is
\* back in its loop.
C9_Witness ==
    /\ Len(data_queue) = DATA_QUEUE_MAXSIZE
    /\ \A i \in 1..Len(data_queue) :
         data_queue[i].error = "none" /\ data_queue[i].time_sec < now
    /\ w_pkg.field = "pd"
    /\ pause_flag = COLLECTING
    /\ w_pc = "loop"

\* C10 (autostart latch): pause_collection while paused and awaiting the first
\* event sets the latch and changes neither is_paused nor pause_flag; the drained
\* event that confirms the connection with the latch set leaves the controller
\* collecting (is_paused false, pause_flag 0) and the latch cleared, in that
\* step; and the latch is never cleared otherwise while the device stays open.
C10_AutostartLatch ==
    [][ /\ (PauseCollection /\ is_paused /\ awaiting_connection_ack) =>
             (autostart_after_connect' /\ is_paused' /\ pause_flag' = pause_flag)
        /\ ((ConsumePd \/ ConsumeIv) /\ autostart_after_connect
               /\ awaiting_connection_ack /\ ~awaiting_connection_ack') =>
             (~is_paused' /\ pause_flag' = COLLECTING /\ ~autostart_after_connect')
        /\ (autostart_after_connect /\ ~autostart_after_connect') =>
             ((~awaiting_connection_ack' /\ ~is_paused') \/ ~device_open')
      ]_vars

\* Collecting with the import mode still on: the resume button always leaves
\* the import mode, so the start came from the latch, applied by the event that
\* confirmed the connection.
C10_Witness ==
    /\ device_open /\ ~awaiting_connection_ack
    /\ ~is_paused /\ pause_flag = COLLECTING
    /\ import_mode
    /\ ~autostart_after_connect

\* C8 (fatal error leads to Disconnected): once the worker is handling a 'read
\* error', the controller eventually is disconnected: the device closed, paused,
\* and no worker alive.
C8_FatalLeadsToDisconnected ==
    (w_pc = "except_fatal") ~> (~device_open /\ is_paused /\ w_pc \in {"none", "exited"})

\* C11 (imported / live mutual exclusion): data_list never holds both entries
\* appended by the CSV import and entries appended by live capture.
C11_ImportedLiveExclusion ==
    ~(\E i, j \in 1..Len(data_list) : data_list[i].forced /\ ~data_list[j].forced)

\* C12 (import refused while collecting): import_csv called while the
\* controller is collecting changes neither the list, the import mode, the
\* snapshots, the pause state nor the connection state.
C12_ImportRefusedWhileCollecting ==
    [][ (ImportCsv /\ ~is_paused) =>
            UNCHANGED <<data_list, import_mode, last_pdo, last_rdo, is_paused, pause_flag,
                        device_open, awaiting_connection_ack, autostart_after_connect,
                        status>>
      ]_vars

\* The controller is collecting, holds live entries, and the Tk thread is free
\* to run import_csv: the call is refused and the state stays this one.
C12_Witness ==
    /\ ui_pc = "idle"
    /\ device_open /\ ~is_paused /\ pause_flag = COLLECTING
    /\ ~import_mode
    /\ data_list # <<>>

\* C13 (resume refused without clearing): pause_collection called to resume in
\* import mode with a non-empty list, the operator answering "no", changes
\* neither is_paused, pause_flag, import_mode nor the list.
C13_ResumeRefusedWithoutClearing ==
    [][ (PauseCollectionAnswer(FALSE) /\ is_paused /\ ~awaiting_connection_ack
            /\ import_mode /\ Len(data_list) > 0) =>
            UNCHANGED <<is_paused, pause_flag, import_mode, data_list>>
      ]_vars

\* Connected, confirmed, paused, with imported rows in the list: the resume asks
\* the operator, and "no" leaves this state.
C13_Witness ==
    /\ ui_pc = "idle"
    /\ device_open /\ is_paused /\ ~awaiting_connection_ack
    /\ pause_flag = PAUSED
    /\ import_mode
    /\ Len(data_list) > 0

\* C14 (connect with prior data): connect_device called while disconnected with
\* a non-empty list changes nothing and creates no worker when the operator
\* answers "no"; when the answer is "yes" the list is empty, a new worker and
\* new empty queues exist, and the controller awaits the first event, paused,
\* with the latch clear.
C14_ConnectWithPriorData ==
    [][ /\ (ConnectDeviceAnswer(FALSE) /\ Len(data_list) > 0) => UNCHANGED vars
        /\ (ConnectDeviceAnswer(TRUE) /\ Len(data_list) > 0) =>
             /\ data_list' = <<>>
             /\ w_pc' = "start" /\ data_queue' = <<>> /\ iv_queue' = <<>>
             /\ stop_event' = "clear" /\ pause_flag' = PAUSED
             /\ device_open' /\ is_paused' /\ awaiting_connection_ack'
             /\ ~autostart_after_connect'
      ]_vars

\* Disconnected after a session that left live entries in the list: the next
\* connect_device asks the operator.
C14_Witness ==
    /\ ui_pc = "idle"
    /\ ~device_open
    /\ connects < MaxConnects
    /\ \E i \in 1..Len(data_list) : ~data_list[i].forced
    /\ w_pc \in {"none", "exited"}

\* q2 is q1 or q1 with one element more at its end
GrewAtEnd(q1, q2) ==
    /\ Len(q2) \in {Len(q1), Len(q1) + 1}
    /\ SubSeq(q2, 1, Len(q1)) = q1

\* d2 is a suffix of d1 followed by x
SuffixThen(d1, d2, x) ==
    /\ Len(d2) >= 1 /\ Len(d2) <= Len(d1) + 1
    /\ d2[Len(d2)] = x
    /\ \A i \in 1..(Len(d2) - 1) : d2[i] = d1[i + Len(d1) + 1 - Len(d2)]

WorkerAlive(pc) == pc \notin {"none", "exited"}

\* C18 (worker stop): while the stop signal is raised, a worker in its loop
\* takes no step but leaving it (no read, nothing sent, whatever errors it met
\* before), and when _stop_collection_process returns no worker is alive: one
\* that did not leave by itself during the wait has been terminated.
C18_WorkerStop ==
    [][ /\ (stop_event = "set" /\ w_pc = "loop" /\ w_pc' # w_pc) =>
                /\ ~WorkerAlive(w_pc')
                /\ reads' = reads
                /\ data_queue' \in {data_queue, <<>>}
                /\ iv_queue' \in {iv_queue, <<>>}
        /\ StopFinish => ~WorkerAlive(w_pc')
      ]_vars

\* The stop signal is raised, the controller waits in join, and the worker,
\* which had read the device before, has left its loop; no error is pending.
C18_Witness ==
    /\ ui_pc = "stop_user"
    /\ stop_event = "set"
    /\ w_pc = "exited"
    /\ reads > 0
    /\ data_queue = <<>>
    /\ ui_callbacks = <<>>
    /\ queue_consumer_running

\* C19 (no automatic reconnect): when the handling of a fatal disconnect or of
\* a connection failure ends, the device is marked closed, no worker is alive
\* and none is recorded as started; and the device becomes open, or a worker
\* comes to life, in no step but the operator's connect_device.
C19_NoAutomaticReconnect ==
    [][ /\ (ui_pc \in {"stop_lost", "stop_failed"} /\ ui_pc' = "idle") =>
                /\ ~device_open'
                /\ ~WorkerAlive(w_pc')
                /\ ~data_thread_started'
        /\ ((~device_open /\ device_open') \/ (~WorkerAlive(w_pc) /\ WorkerAlive(w_pc')))
                => ConnectDevice
      ]_vars

\* A fatal disconnect has been handled: the controller is idle and
\* disconnected, the consumer still runs, and a connect is still possible.
C19_Witness ==
    /\ ui_pc = "idle"
    /\ status = "device_lost"
    /\ ~device_open
    /\ w_pc = "exited"
    /\ ui_callbacks = <<>>
    /\ queue_consumer_running
    /\ connects < MaxConnects

\* C20 (low-frequency gate): of the telemetry events one worker produces, any
\* two that carry update_iv_info are at least 100 ms apart, so an event carries
\* it only if 100 ms have passed since the previous one that did; and of two
\* consecutive events 30 ms apart at most one carries it.
C20_LowFrequencyGate ==
    /\ \A i, j \in 1..Len(gate.sent) :
          (i < j /\ gate.sent[i].update_iv_info /\ gate.sent[j].update_iv_info)
              => gate.sent[j].timestamp - gate.sent[i].timestamp >= IV_INFO_PERIOD_MS
    /\ \A i \in 1..(Len(gate.sent) - 1) :
          gate.sent[i + 1].timestamp - gate.sent[i].timestamp = 30
              => ~(gate.sent[i].update_iv_info /\ gate.sent[i + 1].update_iv_info)

\* The first event carries the flag, the one 30 ms later does not, and the one
\* 70 ms after that, 100 ms after the first, carries it again.
C20_Witness ==
    /\ Len(gate.sent) = 3
    /\ gate.sent[2].timestamp - gate.sent[1].timestamp = 30
    /\ gate.sent[3].timestamp - gate.sent[1].timestamp = IV_INFO_PERIOD_MS
    /\ gate.sent[1].update_iv_info
    /\ ~gate.sent[2].update_iv_info
    /\ gate.sent[3].update_iv_info

\* C21 (telemetry event contents): every telemetry event a worker produces has
\* update_plot set, carries the voltage and the current of the frame it was
\* made from, and has power = |voltage x current| of that same frame, whatever
\* the frames before it were.
C21_TelemetryEventContents ==
    \A i \in 1..Len(gate.sent) :
        LET frame == gate.frames[i] IN
        /\ gate.sent[i].update_plot
        /\ gate.sent[i].voltage = frame[3]
        /\ gate.sent[i].current = Signed(frame[2])
        /\ gate.sent[i].power = Abs(frame[3] * Signed(frame[2]))

\* A frame with 9.0 V and no current, then one with 5.0 V and -1.5 A: the
\* second event has power 7.50 W, the first 0.
C21_Witness ==
    /\ Len(gate.sent) = 2
    /\ gate.sent[1].power = 0
    /\ gate.sent[2].voltage = 50 /\ gate.sent[2].current = -15
    /\ gate.sent[2].power = 750
    /\ gate.sent[2].update_plot

\* The context the live worker holds: its locals last_pdo and last_rdo; it has
\* no local for the extended-context message.
WorkerCtx(l) == [last_pdo |-> l.last_pdo, last_rdo |-> l.last_rdo, last_ext |-> NoPkg]

\* The package each recorded decoder call returned.
CallPkg(call) == auto_unpack(call.frame, call.last_pdo, call.last_ext, call.last_rdo)

\* The context update of the claim, applied to the packages of calls in order:
\* each field is set iff its predicate fires, else it keeps its prior value.
RECURSIVE ContextAfter(_)
ContextAfter(calls) ==
    IF calls = <<>> THEN NoCtx
    ELSE LET prev == ContextAfter(SubSeq(calls, 1, Len(calls) - 1))
             pkg == CallPkg(calls[Len(calls)]) IN
         [last_pdo |-> IF is_pdo(pkg) THEN pkg ELSE prev.last_pdo,
          last_rdo |-> IF is_rdo(pkg) THEN pkg ELSE prev.last_rdo,
          last_ext |-> IF provide_ext(pkg) THEN pkg ELSE prev.last_ext]

\* C22 (context update): after any number of decoded messages, on the live
\* path and on the replay path alike, lastCapability, lastRequest and
\* lastExtended are each the last message that provided them (none if no
\* message did), every other message having left the field as it was.
C22_ContextUpdate ==
    /\ rp.replay.ctx = ContextAfter(rp.replay.calls)
    /\ WorkerCtx(rp.live) = ContextAfter(rp.live.calls)

\* The same statement without the worker's lastExtended: this part holds.
C22_UpdateExceptWorkerExt ==
    /\ rp.replay.ctx = ContextAfter(rp.replay.calls)
    /\ rp.live.last_pdo = ContextAfter(rp.live.calls).last_pdo
    /\ rp.live.last_rdo = ContextAfter(rp.live.calls).last_rdo

\* The markers the claim expects after a control event: one per capability-
\* providing or request-providing message, at its time relative to the origin.
MarkersExpected(events, pd_data, start) ==
    LET ev1 == IF pd_data.is_pdo
                 THEN DequeAppend(events, [t |-> pd_data.time_sec - start, kind |-> "pdo"],
                                  MARKER_MAXLEN)
                 ELSE events IN
    IF pd_data.is_rdo
      THEN DequeAppend(ev1, [t |-> pd_data.time_sec - start, kind |-> "rdo"], MARKER_MAXLEN)
      ELSE ev1

\* C23 (control drain): a control event that is not an error, drained while
\* the controller is collecting, appends exactly one entry (the event's
\* message, with the next index) to data_list, replaces last_pdo / last_rdo
\* by the event's snapshot iff the message provides it, and records exactly
\* one marker per capability- or request-providing message, whether or not a
\* telemetry sample has set the plot origin.
C23_ControlDrain ==
    [][ (ConsumePd /\ Head(data_queue).error = "none" /\ ~is_paused) =>
          LET pd_data == Head(data_queue) IN
          /\ data_list' = Append(data_list, [index |-> Len(data_list) + 1,
                                             data |-> pd_data.data, forced |-> FALSE])
          /\ last_pdo' = IF pd_data.is_pdo THEN pd_data.last_pdo ELSE last_pdo
          /\ last_rdo' = IF pd_data.is_rdo THEN pd_data.last_rdo ELSE last_rdo
          /\ marker_events' = MarkersExpected(marker_events, pd_data, plot_start_time)
      ]_vars

\* Collecting, a capability message and a request were drained: two entries
\* and two markers.
C23_Witness ==
    /\ ~is_paused
    /\ Len(data_list) = 2
    /\ Len(marker_events) = 2
    /\ marker_events[1].kind = "pdo" /\ marker_events[2].kind = "rdo"
    /\ last_pdo.id = 1 /\ last_rdo.id = 3

\* While the controller collects, the plot origin is known.
OriginKnownWhileCollecting == ~is_paused => plot_start_time # NoTime

\* C24 (telemetry drain): every telemetry event taken off iv_queue becomes
\* the newest sample of the ring buffer; the readout (iv_info) takes the
\* event's values if the event carries update_iv_info and the device is
\* marked open, and is left alone otherwise; and the drain never blocks: while
\* the consumer runs, a waiting event of either queue can be taken.
C24_TelemetryDrain ==
    /\ [](queue_consumer_running =>
             /\ iv_queue # <<>> => ENABLED ConsumeIv
             /\ data_queue # <<>> => ENABLED ConsumePd)
    /\ [][ ConsumeIv =>
             LET iv_data == Head(iv_queue) IN
             /\ iv_queue' = Tail(iv_queue)
             /\ plot_times' # <<>>
             /\ plot_times'[Len(plot_times')] = iv_data.timestamp - plot_start_time'
             /\ plot_voltage'[Len(plot_voltage')] = iv_data.voltage
             /\ plot_current'[Len(plot_current')] = iv_data.current
             /\ Len(plot_times') = IF Len(plot_times) < PLOT_MAXLEN
                                     THEN Len(plot_times) + 1 ELSE PLOT_MAXLEN
             /\ iv_info' = IF iv_data.update_iv_info /\ device_open
                              THEN [current |-> iv_data.current, voltage |-> iv_data.voltage,
                                    power |-> iv_data.power, shown |-> TRUE]
                              ELSE iv_info
         ]_vars

\* Two telemetry events 50 ms apart were drained while the device was open:
\* both are in the ring buffer and the readout shows the values of the first,
\* the only one that carried update_iv_info.
C24_Witness ==
    /\ device_open
    /\ reads = 2
    /\ iv_queue = <<>>
    /\ Len(plot_times) = 2
    /\ plot_times[2] - plot_times[1] < IV_INFO_PERIOD_MS
    /\ iv_info.shown
    /\ iv_info.power = 5

\* C25 (disconnect handling): draining the 'device_disconnected' sentinel
\* schedules _handle_device_disconnect; when the handler starts it marks the
\* controller Disconnected (device closed, paused, no confirmation awaited),
\* clears last_pdo and last_rdo and stops the plot refresh; and when it ends
\* the controller is still Disconnected, no worker is alive and both queues
\* are empty, so nothing of the old session is left to process.
C25_DisconnectHandling ==
    [][ /\ (ConsumePd /\ Head(data_queue).error = "device_disconnected") =>
                ui_callbacks' = Append(ui_callbacks, "handle_device_disconnect")
        /\ (RunCallback /\ Head(ui_callbacks) = "handle_device_disconnect") =>
                /\ ~device_open' /\ is_paused' /\ ~awaiting_connection_ack'
                /\ last_pdo' = NoPkg /\ last_rdo' = NoPkg
                /\ ~plot_update_job'
                /\ stop_event' # "clear"
        /\ (ui_pc = "stop_lost" /\ ui_pc' = "idle") =>
                /\ ~device_open' /\ is_paused' /\ ~awaiting_connection_ack'
                /\ ~plot_update_job'
                /\ ~WorkerAlive(w_pc')
                /\ data_queue' = <<>> /\ iv_queue' = <<>>
      ]_vars

\* The snapshots are still clear when the handler ends.  (This one does not
\* hold: a handler scheduled for a session the operator has meanwhile replaced
\* by a new one runs against the new session, whose control events are drained
\* while the handler waits for the worker.)
C25_SnapshotsClearAtEnd ==
    [][ (ui_pc = "stop_lost" /\ ui_pc' = "idle") => (last_pdo' = NoPkg /\ last_rdo' = NoPkg)
      ]_vars

\* The controller had collected a capability message, the device was lost and
\* the handler has run to its end: Disconnected, snapshots cleared, worker
\* gone, queues empty.
C25_Witness ==
    /\ ui_pc = "idle"
    /\ status = "device_lost"
    /\ ~device_open /\ is_paused /\ ~awaiting_connection_ack
    /\ Len(data_list) = 1 /\ data_list[1].data.id = 1 /\ ~data_list[1].forced
    /\ last_pdo = NoPkg /\ last_rdo = NoPkg
    /\ w_pc = "exited"
    /\ data_queue = <<>> /\ iv_queue = <<>>

\* C26 (transient errors): an iteration of the worker that fails with an
\* error that is not 'read error' (the failing read and the branch that
\* follows it) puts nothing on either queue, leaves last_pdo and last_rdo of
\* the worker as they were, changes nothing of the controller and leaves the
\* consumer running; the worker's next step takes it back to the top of its
\* loop (unless the controller kills it first).
C26_TransientErrors ==
    [][ /\ ((w_pc = "loop" /\ w_pc' = "except_other") \/
             (w_pc = "except_other" /\ w_pc' = "loop")) =>
                /\ UNCHANGED <<data_queue, iv_queue, w_last_pdo, w_last_rdo>>
                /\ UNCHANGED <<gui_vars, ui_vars>>
        /\ w_pc = "except_other" => w_pc' \in {"except_other", "loop", "none"}
      ]_vars

\* The worker, holding a capability message as context while the controller
\* collects, has just met an error that is not fatal.
C26_Witness ==
    /\ w_pc = "except_other"
    /\ w_last_pdo.id = 1
    /\ ~is_paused
    /\ device_open
    /\ queue_consumer_running

\* The open of this connection failed and the failure is not handled yet: the
\* sentinel waits in data_queue, or its handler is scheduled or running.
ConnectionFailedPending ==
    \/ \E i \in 1..Len(data_queue) : data_queue[i].error = "connection_failed"
    \/ \E i \in 1..Len(ui_callbacks) : ui_callbacks[i] = "handle_connection_failed"
    \/ ui_pc = "stop_failed"

\* The rollback itself: a worker that cannot open the device sends the
\* 'connection_failed' sentinel, the consumer schedules the handler for it, and
\* when the handler ends the controller is Disconnected with no worker alive.
C27_Rollback ==
    [][ /\ (w_pc = "start" /\ w_pc' = "exited") =>
                data_queue' = Append(data_queue, ErrorEvent("connection_failed"))
        /\ (ConsumePd /\ Head(data_queue).error = "connection_failed") =>
                ui_callbacks' = Append(ui_callbacks, "handle_connection_failed")
        /\ (ui_pc = "stop_failed" /\ ui_pc' = "idle") =>
                /\ ~device_open' /\ is_paused'
                /\ ~awaiting_connection_ack' /\ ~autostart_after_connect'
                /\ ~WorkerAlive(w_pc') /\ ~data_thread_started'
                /\ status' = "connection_failed"
      ]_vars

\* C27 (connection failure rollback): a worker that cannot open the device
\* sends 'connection_failed'; draining it brings the controller back to
\* Disconnected (device closed, paused, no confirmation awaited, latch clear)
\* with the worker stopped; and in a connection whose open failed and which
\* still awaits its first event, 'connected' is never announced.
C27_ConnectionFailureRollback ==
    [][ /\ (w_pc = "start" /\ w_pc' = "exited") =>
                data_queue' = Append(data_queue, ErrorEvent("connection_failed"))
        /\ (ConsumePd /\ Head(data_queue).error = "connection_failed") =>
                ui_callbacks' = Append(ui_callbacks, "handle_connection_failed")
        /\ (ui_pc = "stop_failed" /\ ui_pc' = "idle") =>
                /\ ~device_open' /\ is_paused'
                /\ ~awaiting_connection_ack' /\ ~autostart_after_connect'
                /\ ~WorkerAlive(w_pc') /\ ~data_thread_started'
                /\ status' = "connection_failed"
        /\ (ConnectionFailedPending' /\ awaiting_connection_ack') =>
                status' \notin {"connected", "cleared_connected", "collecting"}
      ]_vars

\* C28 (error sentinels never confirm): taking an error sentinel off the
\* control queue leaves awaiting_connection_ack, the status, the pause state
\* and the autostart latch as they were and appends nothing; and a connection
\* is confirmed (awaiting_connection_ack cleared with the device still open,
\* or the status turned to 'connected') only by a consumer step that takes an
\* event that is not an error.
C28_ErrorSentinelsNeverConfirm ==
    [][ /\ (ConsumePd /\ Head(data_queue).error # "none") =>
                /\ UNCHANGED <<awaiting_connection_ack, autostart_after_connect, status,
                               is_paused, pause_flag, data_list, device_open>>
        /\ ((awaiting_connection_ack /\ ~awaiting_connection_ack' /\ device_open') \/
             (status # "connected" /\ status' = "connected")) =>
                \/ ConsumeIv
                \/ ConsumePd /\ Head(data_queue).error = "none"
      ]_vars

\* The sentinel of a lost device was taken while the connection still awaited
\* its first event with a start request latched: the handler is scheduled and
\* nothing was confirmed or started.
C28_Witness ==
    /\ ui_callbacks = <<"handle_device_disconnect">>
    /\ data_queue = <<>>
    /\ device_open
    /\ awaiting_connection_ack
    /\ autostart_after_connect
    /\ is_paused
    /\ pause_flag = PAUSED
    /\ status = "connecting"

\* C29 (session state machine): the controller is collecting only if the
\* device is marked open and the connection has been confirmed.
C29_SessionStateMachine ==
    ~is_paused => (device_open /\ ~awaiting_connection_ack)

\* Collecting: device open, connection confirmed, worker told to send.
C29_Witness ==
    /\ ~is_paused
    /\ device_open
    /\ ~awaiting_connection_ack
    /\ pause_flag = COLLECTING
    /\ w_pc = "loop"

\* C30 (one worker per connection): a worker is alive only while one is
\* marked started, so connect_device never creates a worker next to a living
\* one; and a worker is created only by connect_device, when none is marked
\* started, with empty queues, a clear stop signal and the pause flag set.
C30_OneWorkerPerConnection ==
    [][ /\ WorkerAlive(w_pc') => data_thread_started'
        /\ (w_pc' = "start" /\ w_pc # "start") =>
                /\ ConnectDevice
                /\ ~data_thread_started /\ ~WorkerAlive(w_pc)
                /\ data_thread_started'
                /\ data_queue' = <<>> /\ iv_queue' = <<>>
                /\ stop_event' = "clear"
                /\ pause_flag' = PAUSED
        /\ (~data_thread_started /\ data_thread_started') => ConnectDevice
      ]_vars

\* The second connection: its worker was just created, after the first one
\* had been told to stop and had exited.
C30_Witness ==
    /\ connects = 2
    /\ w_pc = "start"
    /\ data_thread_started
    /\ data_queue = <<>> /\ iv_queue = <<>>
    /\ stop_event = "clear"
    /\ pause_flag = PAUSED
    /\ status = "connecting"

\* Live capture: the device is open and the controller is collecting.
LiveCapture == device_open /\ ~is_paused

\* C31 (single-writer log): during live capture data_list changes only in a
\* step of the consumer that drains a control event, and the ring buffer only
\* in a step of the consumer that drains a telemetry event; no other actor
\* (clear list, import, connect) changes them then.
C31_SingleWriterLog ==
    [][ LiveCapture =>
          /\ data_list' # data_list => ConsumePd
          /\ <<plot_times, plot_voltage, plot_current>>' #
                 <<plot_times, plot_voltage, plot_current>> => ConsumeIv
      ]_vars

\* The ring buffer's half of it, which holds.
C31_RingBufferSingleWriter ==
    [][ LiveCapture =>
          (<<plot_times, plot_voltage, plot_current>>' #
              <<plot_times, plot_voltage, plot_current>> => ConsumeIv)
      ]_vars

\* ---------------------------------------------------------------------------
\* C32  Index stability: in every reachable state the k-th entry of the message
\* log (counting from 1) has index k, so indexes are unique and contiguous
\* 1..len(log), under every interleaving of consumer appends with clear_list()
\* and import.
\* ---------------------------------------------------------------------------
IndexesContiguous(list) == \A k \in 1..Len(list) : list[k].index = k

C32_IndexStability == IndexesContiguous(lg.list)

\* The same statement with add_data_item taken as one step (Spec): it holds
\* there, so the violation needs the statement-level interleaving of SpecLog.
C32_IndexStabilityPerHandler == IndexesContiguous(data_list)

\* ---------------------------------------------------------------------------
\* C33  Ring buffer rebasing: the rebasing origin is set by the first sample
\* appended after a reset and is not changed by any later sample until the next
\* reset; every stored time equals that sample's absolute time minus the origin,
\* so the first sample of a session is stored at relative time zero, and every
\* marker is stored with the same origin.
\* ---------------------------------------------------------------------------
\* A telemetry event is taken and plotted in this step.
SampleStep == ConsumeIv /\ Head(iv_queue).update_plot

\* The sample plotted in this step is the first one of its session: it is the
\* event that confirms the connection.
FirstSampleOfSession == SampleStep /\ awaiting_connection_ack

NewestTime(times) == times[Len(times)]

\* The origin is set by the first sample after a reset, kept by later samples,
\* and changed otherwise only by a reset, which empties the buffers; samples and
\* markers are stored relative to it.
C33_OriginStable ==
    [][ /\ SampleStep =>
             /\ plot_start_time' = IF plot_start_time = NoTime
                                     THEN Head(iv_queue).timestamp
                                     ELSE plot_start_time
             /\ NewestTime(plot_times') = Head(iv_queue).timestamp - plot_start_time'
             /\ plot_start_time = NoTime => NewestTime(plot_times') = 0
        /\ (~SampleStep /\ plot_start_time' # plot_start_time) =>
             /\ plot_start_time' = NoTime
             /\ plot_times' = <<>>
             /\ marker_events' = <<>>
        /\ (ConsumePd /\ marker_events' # marker_events) =>
             /\ plot_start_time # NoTime
             /\ marker_events' = MarkersExpected(marker_events, Head(data_queue),
                                                 plot_start_time)
      ]_vars

C33_RingBufferRebasing ==
    /\ C33_OriginStable
    /\ [][ FirstSampleOfSession => NewestTime(plot_times') = 0 ]_vars

\* ---------------------------------------------------------------------------
\* C34  Ring buffer shape: in every reachable state the time, voltage and
\* current buffers have the same length, that length never exceeds the fixed
\* capacity (60000, PLOT_MAXLEN here), and once full each append evicts exactly
\* the oldest point of all three buffers together.
\* ---------------------------------------------------------------------------
PlotFull == Len(plot_times) = PLOT_MAXLEN

C34_RingBufferShape ==
    /\ [](/\ Len(plot_times) = Len(plot_voltage)
          /\ Len(plot_times) = Len(plot_current)
          /\ Len(plot_times) <= PLOT_MAXLEN)
    /\ [][ (SampleStep /\ PlotFull) =>
             /\ plot_times' = Append(Tail(plot_times), NewestTime(plot_times'))
             /\ plot_voltage' = Append(Tail(plot_voltage), Head(iv_queue).voltage)
             /\ plot_current' = Append(Tail(plot_current), Head(iv_queue).current)
         ]_vars

\* A full buffer has taken one more sample: the session's first point (stored
\* at zero) is gone.
C34_Witness ==
    /\ PlotFull
    /\ Len(plot_voltage) = PLOT_MAXLEN
    /\ plot_times[1] > 0

\* ---------------------------------------------------------------------------
\* C35  Window bound: the lower bound of the rendered trailing window is
\* max(relativeTime) - windowSeconds clamped to zero, so it is never negative,
\* including when fewer than windowSeconds of data have been collected.
\* ---------------------------------------------------------------------------
C35_WindowBound ==
    /\ pl.xlim.lo >= 0
    /\ (pl.times # <<>> /\ pl.refreshes > 0 /\ pl.xlim.hi = SeqMax(pl.times)) =>
          pl.xlim = PlotWindow_Clamped(pl.times)

\* What the code does: the window is exactly windowSeconds wide, its upper
\* bound the newest sample.
C35_WindowWidth ==
    [][ (PlotRefresh /\ pl.times # <<>>) =>
           /\ pl.xlim'.hi = SeqMax(pl.times)
           /\ pl.xlim'.lo = pl.xlim'.hi - PLOT_WINDOW_SECONDS ]_vars

\* ---------------------------------------------------------------------------
\* C36  Marker dedup: across any number of plot refreshes, at most one rendered
\* marker exists for each distinct (relativeTime, kind) key; a marker already
\* rendered is never added again, and a reset removes all rendered markers
\* together with all marker events.
\* ---------------------------------------------------------------------------
C36_MarkerDedup ==
    /\ [](\A key \in DOMAIN pl.rendered : pl.rendered[key] = 1)
    /\ [][ /\ PlotRefresh =>
                \A key \in DOMAIN pl.rendered :
                   key \in DOMAIN pl.rendered' /\ pl.rendered'[key] = pl.rendered[key]
           /\ PlotReset =>
                /\ pl.rendered' = NoArtists
                /\ pl.events' = <<>>
                /\ pl.map' = {}
         ]_vars

\* A second refresh has run over marker events that already had their lines:
\* two events, two lines.
C36_Witness ==
    /\ pl.refreshes >= 2
    /\ Len(pl.events) = 2
    /\ pl.events[1] # pl.events[2]
    /\ DOMAIN pl.rendered = {pl.events[1], pl.events[2]}

\* ---------------------------------------------------------------------------
\* C37  F5 shortcut: pressing F5 while disconnected starts a connection and
\* latches auto-start, so collection begins once the first event confirms the
\* connection; pressing F5 while connected and paused resumes collection, and
\* while already collecting it changes nothing.
\* ---------------------------------------------------------------------------
\* The operator answered "no" to the dialog the handler asked: nothing happens.
F5Declined == UNCHANGED vars

\* A step of the consumer that confirms the connection.
ConfirmStep == awaiting_connection_ack /\ ~awaiting_connection_ack' /\ device_open'

C37_F5Shortcut ==
    [][ /\ F5Press =>
             IF ~device_open
               THEN \/ /\ Len(data_list) > 0
                       /\ F5Declined
                    \/ /\ device_open'
                       /\ awaiting_connection_ack'
                       /\ autostart_after_connect'
                       /\ WorkerAlive(w_pc')
             ELSE IF ~is_paused
               THEN UNCHANGED vars
             ELSE IF awaiting_connection_ack
               THEN /\ autostart_after_connect'
                    /\ is_paused'
             ELSE \/ /\ import_mode /\ Len(data_list) > 0
                     /\ F5Declined
                  \/ /\ ~is_paused'
                     /\ pause_flag # NoFlag => pause_flag' = COLLECTING
        /\ (ConfirmStep /\ autostart_after_connect) =>
             /\ ~is_paused'
             /\ pause_flag' = COLLECTING
             /\ ~autostart_after_connect'
        /\ (awaiting_connection_ack /\ autostart_after_connect
               /\ awaiting_connection_ack') => autostart_after_connect'
      ]_vars

\* F5 was pressed while disconnected and the first event has confirmed the
\* connection: the controller is collecting without the start button.
C37_Witness ==
    /\ device_open
    /\ ~awaiting_connection_ack
    /\ ~is_paused
    /\ pause_flag = COLLECTING
    /\ status = "collecting"
    /\ connects = 1
    /\ reads = 1

\* ---------------------------------------------------------------------------
\* C38  Pause flag agreement: whenever a worker is live and no pause / resume /
\* confirmation step is mid-execution, the shared pause flag read by the worker
\* equals the controller's own pause state (pause_flag = 1 iff is_paused), under
\* every interleaving of operator pause/resume on the UI thread with the
\* autostart step on the consumer thread.
\* ---------------------------------------------------------------------------
C38_PauseFlagAgreement ==
    (pf.c_pc = "idle" /\ pf.u_pc = "idle") => (pf.pause_flag = PAUSED <=> pf.is_paused)

\* With every handler and every consumer event taken as one step (Spec).
C38_AgreementPerHandler ==
    (WorkerAlive(w_pc) /\ pause_flag # NoFlag /\ ui_pc = "idle" /\ device_open) =>
        (pause_flag = PAUSED <=> is_paused)

\* ---------------------------------------------------------------------------
\* C39  Markers and snapshots match the log: every marker event recorded and
\* every update of the controller's last-capability / last-request snapshot is
\* caused by a control message that was appended to the message log in the same
\* drain step; a control event drained while the controller is paused changes
\* neither the log, nor the snapshots, nor the markers.
\* ---------------------------------------------------------------------------
\* The consumer takes a control event (not the error sentinel) in this step.
ControlDrain == ConsumePd /\ ~IsErrorEvent(Head(data_queue))

\* The event taken was appended to the log in this step.
AppendedInStep ==
    /\ Len(data_list') = Len(data_list) + 1
    /\ data_list'[Len(data_list')].data = Head(data_queue).data

C39_MarkersSnapshotsMatchLog ==
    [][ ControlDrain =>
          /\ (\/ last_pdo' # last_pdo
              \/ last_rdo' # last_rdo
              \/ marker_events' # marker_events) => AppendedInStep
          /\ is_paused' => UNCHANGED <<data_list, last_pdo, last_rdo, marker_events>>
      ]_vars

\* The half that holds: a control event drained while paused leaves the log
\* alone, and one drained while collecting is appended.
C39_LogGate ==
    [][ ControlDrain => IF is_paused' THEN UNCHANGED data_list ELSE AppendedInStep ]_vars

\* ---------------------------------------------------------------------------
\* C40  Latch does not leak: the autostart latch is false at the start of every
\* connection attempt and after every way of leaving a session (operator
\* disconnect, fatal disconnect, connection failure), so a resume request
\* latched in one session is never applied to a later session.
\* ---------------------------------------------------------------------------
\* No session: the device is not marked open and no handler is mid-way.
NoSession == ~device_open /\ ui_pc = "idle"

C40_LatchDoesNotLeak ==
    /\ [](NoSession => ~autostart_after_connect)
    /\ [][ /\ (~device_open /\ device_open') => ~autostart_after_connect'
           /\ (device_open /\ ~device_open') => ~autostart_after_connect'
           /\ (~autostart_after_connect /\ autostart_after_connect') =>
                 (device_open /\ awaiting_connection_ack /\ device_open')
         ]_vars

\* A second connection attempt has just started after a session was left: it
\* awaits its first event with nothing latched.
C40_Witness ==
    /\ connects = 2
    /\ device_open
    /\ awaiting_connection_ack
    /\ ~autostart_after_connect
    /\ status = "connecting"
    /\ reads = 0

====
